---- MODULE Spec2Model ----
(***************************************************************************)
(* Category resolution of cashewiss: the three mapping tables of a         *)
(* BaseTransactionProcessor (core/base.py), CategoryMapping construction   *)
(* (core/models.py), the fallback chain of _map_category and the           *)
(* construction of the provider processors (processors/*.py).              *)
(*                                                                         *)
(* Specifications over the same state: Spec (seeding and resolving on one  *)
(* processor with the default columns), ProviderSpec (construction of the  *)
(* provider classes, column attributes, a second instance), MappingSpec    *)
(* (CategoryMapping construction alone), CallerSpec (a caller that assigns *)
(* to the mappings it is handed), LookupSpec (resolving by merchant name   *)
(* on a provider), TransformSpec (transform_data of the provider classes), *)
(* SplitSpec and ExportSpec (core/client.py).                              *)
(*                                                                         *)
(* Strings are sequences of one-character strings, so that lower(),        *)
(* split() and the substring test are computed, not assumed.  The alphabet *)
(* is ASCII: str.lower() maps A-Z to a-z and leaves every other character. *)
(***************************************************************************)
EXTENDS Integers, Sequences, FiniteSets, TLC

VARIABLES
    merchant_mappings,             \* self._config.merchant_mappings
    merchant_category_mappings,    \* self._config.merchant_category_mappings
    registered_category_mappings,  \* self._config.registered_category_mappings
    hash_order,                    \* iteration order of a set of str in this interpreter process
    call,                          \* the last _map_category call, while the tables are as it saw them
    error,                         \* the exception the last call raised, "none" if it returned
    merchant_column,               \* self.merchant_column
    merchant_category_column,      \* self.merchant_category_column
    registered_category_column,    \* self.registered_category_column
    processor,                     \* the class of self, and whether its __init__ returned
    peer_mappings,                 \* the three tables of a second processor instance
    suggested_merchant_mapping,    \* the class attribute BaseTransactionProcessor.SUGGESTED_MERCHANT_MAPPING
    made,                          \* the last CategoryMapping(...) construction by a caller
    transformed,                   \* the last transform_data call and what it returned or raised
    split_call,                    \* the last _split_batch call and what it returned
    export                         \* the export_to_api call in progress or last finished

\* the column attributes of self
columns == <<merchant_column, merchant_category_column, registered_category_column>>

\* what lies outside one processor with its default columns
\* what the calls on a processor's client side work on
client == <<transformed, split_call, export>>

outside == <<columns, processor, peer_mappings, suggested_merchant_mapping, made, client>>

vars == <<merchant_mappings, merchant_category_mappings,
          registered_category_mappings, hash_order, call, error, outside>>

----------------------------------------------------------------------------
(* Bounds *)

\* longest mapper (number of entries) passed to one set_category_mapper call
MaxEntries == 2

\* amounts of a row range over -MaxAmount .. MaxAmount
MaxAmount == 1

----------------------------------------------------------------------------
(* Strings *)

UpperCase == <<"A","B","C","D","E","F","G","H","I","J","K","L","M",
               "N","O","P","Q","R","S","T","U","V","W","X","Y","Z">>
LowerCase == <<"a","b","c","d","e","f","g","h","i","j","k","l","m",
               "n","o","p","q","r","s","t","u","v","w","x","y","z">>

Whitespace == {" ", "\t"}

\* the lowercase letter of each uppercase letter
LowerOf ==
    [c \in {UpperCase[i] : i \in 1..Len(UpperCase)} |->
        LowerCase[CHOOSE i \in 1..Len(UpperCase) : UpperCase[i] = c]]

lower_char(c) == IF c \in DOMAIN LowerOf THEN LowerOf[c] ELSE c

\* str.lower()
lower(s) == IF s = <<>> THEN <<>> ELSE [i \in 1..Len(s) |-> lower_char(s[i])]

\* str.split() with no argument: the maximal runs of non-whitespace, in order
RECURSIVE split_from(_, _, _, _)
split_from(s, i, word, acc) ==
    IF i > Len(s)
    THEN IF word = <<>> THEN acc ELSE Append(acc, word)
    ELSE IF s[i] \in Whitespace
         THEN split_from(s, i + 1, <<>>,
                         IF word = <<>> THEN acc ELSE Append(acc, word))
         ELSE split_from(s, i + 1, Append(word, s[i]), acc)

split(s) == split_from(s, 1, <<>>, <<>>)

\* sub in s
contains(s, sub) ==
    \E i \in 0..(Len(s) - Len(sub)) : SubSeq(s, i + 1, i + Len(sub)) = sub

Range(f) == {f[i] : i \in DOMAIN f}

----------------------------------------------------------------------------
(* Taxonomy (core/enums.py): an enum member is <<enum type, member name>> *)

None == <<"NoneType", "None">>

\* Category: member name -> value
CategoryValue ==
    [INCOME |-> "Income", BILLS |-> "Bills", ESSENTIALS |-> "Essentials",
     DINING |-> "Dining", SHOPPING |-> "Shopping", HOUSEHOLD |-> "Household",
     PERSONAL_CARE |-> "Personal Care & Health", LEISURE |-> "Leisure",
     HOBBIES |-> "Hobbies", TRAVEL |-> "Travel", FINANCIAL |-> "Financial"]

Category == DOMAIN CategoryValue

\* the members of each subcategory enum
SubcategoryMembers ==
    [IncomeSubcategory |-> {"SALARY", "SIDE", "TWINT"},
     BillsSubcategory |-> {"RENT", "UTILITIES", "INSURANCE", "TELECOM", "TAXES",
                           "FEES", "SUBSCRIPTIONS", "DONATIONS"},
     EssentialsSubcategory |-> {"TRANSIT", "GROCERIES"},
     DiningSubcategory |-> {"WORK", "DATE", "DELIVERY", "SOCIAL", "TWINT"},
     ShoppingSubcategory |-> {"CLOTHING", "ELECTRONICS", "MEDIA", "GIFTS"},
     HouseholdSubcategory |-> {"FURNITURE", "APPLIANCES", "DECOR", "CLEANING"},
     PersonalCareSubcategory |-> {"MEDICAL", "PERSONAL"},
     LeisureSubcategory |-> {"EVENTS", "ACTIVITIES"},
     HobbiesSubcategory |-> {"BOULDERN", "SALSA", "TECH"},
     TravelSubcategory |-> {"TRANSPORT", "ACCOMMODATION", "FOOD_ACTIVITIES"},
     FinancialSubcategory |-> {"INVESTMENTS", "SAVINGS"}]

Subcategory ==
    UNION {{<<t, m>> : m \in SubcategoryMembers[t]} : t \in DOMAIN SubcategoryMembers}

\* the value of each subcategory member
SubcategoryValue ==
    (<<"IncomeSubcategory", "SALARY">> :> "Salary" @@
     <<"IncomeSubcategory", "SIDE">> :> "Side" @@
     <<"IncomeSubcategory", "TWINT">> :> "Twint" @@
     <<"BillsSubcategory", "RENT">> :> "Rent" @@
     <<"BillsSubcategory", "UTILITIES">> :> "Utilities" @@
     <<"BillsSubcategory", "INSURANCE">> :> "Insurance" @@
     <<"BillsSubcategory", "TELECOM">> :> "Telecom" @@
     <<"BillsSubcategory", "TAXES">> :> "Taxes" @@
     <<"BillsSubcategory", "FEES">> :> "Fees" @@
     <<"BillsSubcategory", "SUBSCRIPTIONS">> :> "Subscriptions" @@
     <<"BillsSubcategory", "DONATIONS">> :> "Donations" @@
     <<"EssentialsSubcategory", "TRANSIT">> :> "Transit" @@
     <<"EssentialsSubcategory", "GROCERIES">> :> "Groceries" @@
     <<"DiningSubcategory", "WORK">> :> "Work" @@
     <<"DiningSubcategory", "DATE">> :> "Date" @@
     <<"DiningSubcategory", "DELIVERY">> :> "Delivery" @@
     <<"DiningSubcategory", "SOCIAL">> :> "Social" @@
     <<"DiningSubcategory", "TWINT">> :> "Twint" @@
     <<"ShoppingSubcategory", "CLOTHING">> :> "Clothing" @@
     <<"ShoppingSubcategory", "ELECTRONICS">> :> "Electronics" @@
     <<"ShoppingSubcategory", "MEDIA">> :> "Media" @@
     <<"ShoppingSubcategory", "GIFTS">> :> "Gifts" @@
     <<"HouseholdSubcategory", "FURNITURE">> :> "Furniture" @@
     <<"HouseholdSubcategory", "APPLIANCES">> :> "Appliances" @@
     <<"HouseholdSubcategory", "DECOR">> :> "Decor & Furnishings" @@
     <<"HouseholdSubcategory", "CLEANING">> :> "Cleaning" @@
     <<"PersonalCareSubcategory", "MEDICAL">> :> "Medical" @@
     <<"PersonalCareSubcategory", "PERSONAL">> :> "Personal Care" @@
     <<"LeisureSubcategory", "EVENTS">> :> "Events" @@
     <<"LeisureSubcategory", "ACTIVITIES">> :> "Activities" @@
     <<"HobbiesSubcategory", "BOULDERN">> :> "Bouldern" @@
     <<"HobbiesSubcategory", "SALSA">> :> "Salsa" @@
     <<"HobbiesSubcategory", "TECH">> :> "Tech" @@
     <<"TravelSubcategory", "TRANSPORT">> :> "Transport" @@
     <<"TravelSubcategory", "ACCOMMODATION">> :> "Accommodation" @@
     <<"TravelSubcategory", "FOOD_ACTIVITIES">> :> "Food & Activities" @@
     <<"FinancialSubcategory", "INVESTMENTS">> :> "Investments" @@
     <<"FinancialSubcategory", "SAVINGS">> :> "Savings")

\* Category -> subcategory enum type
SUBCATEGORY_TYPES ==
    [INCOME |-> "IncomeSubcategory", BILLS |-> "BillsSubcategory",
     ESSENTIALS |-> "EssentialsSubcategory", DINING |-> "DiningSubcategory",
     SHOPPING |-> "ShoppingSubcategory", HOUSEHOLD |-> "HouseholdSubcategory",
     PERSONAL_CARE |-> "PersonalCareSubcategory", LEISURE |-> "LeisureSubcategory",
     HOBBIES |-> "HobbiesSubcategory", TRAVEL |-> "TravelSubcategory",
     FINANCIAL |-> "FinancialSubcategory"]

----------------------------------------------------------------------------
(* CategoryMapping (core/models.py) *)

\* a constructed CategoryMapping instance
Mapping(category, subcategory) ==
    [category |-> category, subcategory |-> subcategory]

\* validate_categories with a fault: every subcategory is accepted
validate_categories_any(category, subcategory) == TRUE

\* the field validator of CategoryMapping.subcategory: TRUE iff it accepts
validate_categories(category, subcategory) ==
    \/ subcategory = None
    \/ /\ category \in DOMAIN SUBCATEGORY_TYPES
       /\ subcategory[1] = SUBCATEGORY_TYPES[category]

\* pydantic's validation of the field types, before the validator runs:
\* `category: Category` takes a member or the value of a member (a str is
\* looked up by value); `subcategory: Optional[Enum]` takes None or an
\* instance of Enum, and a plain str is no instance of Enum.
coerce_category(c) ==
    IF c \in Category THEN c
    ELSE IF \E m \in Category : CategoryValue[m] = c
         THEN CHOOSE m \in Category : CategoryValue[m] = c
         ELSE "ValidationError"

is_enum_instance(x) == x[1] \in DOMAIN SubcategoryMembers

\* CategoryMapping(category=..., subcategory=...): the instance, or the
\* ValidationError pydantic raises
CategoryMapping(category, subcategory) ==
    LET c == coerce_category(category) IN
    IF /\ c \in Category
       /\ subcategory = None \/ is_enum_instance(subcategory)
       /\ validate_categories(c, subcategory)
    THEN [ok |-> TRUE, value |-> Mapping(c, subcategory)]
    ELSE [ok |-> FALSE, value |-> Mapping("ValidationError", None)]


----------------------------------------------------------------------------
(* BaseTransactionProcessor (core/base.py): columns and inputs *)

\* the default column names set by __init__
DefaultMerchantColumn == "Merchant"
DefaultMerchantCategoryColumn == "Merchant Category"
DefaultRegisteredCategoryColumn == "Registered Category"
\* the column the callers put the amount in; _map_category never reads it
amount_column == "Amount"

\* a column name of None (a processor without that column)
NoColumn == "None"

\* a seed value: a CategoryMapping instance, or a raw dict
Instance(category, subcategory) ==
    [kind |-> "CategoryMapping", category |-> category, subcategory |-> subcategory]
RawDict(category, subcategory) ==
    [kind |-> "dict", category |-> category, subcategory |-> subcategory]

\* a raw str given where an Enum is expected
Str(s) == <<"str", s>>

\* SUGGESTED_MERCHANT_MAPPING, three of its entries in dict order
SUGGESTED_MERCHANT_MAPPING ==
    << <<  <<"k","i","r">>, Instance("DINING", <<"DiningSubcategory", "SOCIAL">>) >>,
       <<  <<"s","v">>, Instance("DINING", <<"DiningSubcategory", "WORK">>) >>,
       <<  <<"g","e","l","a","t","e","r","i","a">>, Instance("DINING", None) >> >>

\* the entries a caller may seed, by the table they are meant for
MerchantEntries ==
    { << <<"C","o","o","p">>, Instance("ESSENTIALS", <<"EssentialsSubcategory", "GROCERIES">>) >>,
      << <<"C","O","O","P"," ","K","i","r">>, Instance("SHOPPING", None) >>,
      << <<"K","I","R">>, RawDict("Dining", None) >>,
      << <<"P","u","b">>, RawDict("Dining", Str("Social")) >> }

MerchantCategoryEntries ==
    { << <<"F","o","o","d">>, Instance("DINING", None) >>,
      << <<"F","O","O","D">>, Instance("DINING", <<"DiningSubcategory", "WORK">>) >> }

RegisteredCategoryEntries ==
    { << <<"B","A","R","S">>, Instance("DINING", <<"DiningSubcategory", "SOCIAL">>) >>,
      << <<"B","a","r","s">>, Instance("LEISURE", None) >> }

MapperTypes ==
    {merchant_column, merchant_category_column, registered_category_column, "Category"}

\* the entries given under a name that is no column of the processor
UnknownEntries ==
    { << <<"C","o","o","p">>, Instance("ESSENTIALS", <<"EssentialsSubcategory", "GROCERIES">>) >>,
      << <<"P","u","b">>, RawDict("Dining", Str("Social")) >> }

EntriesFor(mapper_type) ==
    IF mapper_type = merchant_category_column THEN MerchantCategoryEntries
    ELSE IF mapper_type = registered_category_column THEN RegisteredCategoryEntries
    ELSE IF mapper_type = merchant_column THEN MerchantEntries
    ELSE UnknownEntries

\* a mapper: a dict, as the sequence of its items in insertion order
Mappers(mapper_type) ==
    UNION {[1..n -> EntriesFor(mapper_type)] : n \in 0..MaxEntries}

\* the values a row may carry
MerchantNames ==
    { <<"C","o","o","p">>,
      <<"C","o","o","p"," ","K","I","R">>,
      <<"T","W","I","N","T","J","o">>,
      <<"S","h","o","p">>,
      <<>> }
MerchantCategoryLabels == { <<"F","o","o","d">> }
RegisteredCategoryLabels == { <<"B","a","r","s">> }
Amounts == (0 - MaxAmount)..MaxAmount

\* an optional field of a row
Absent == [has |-> FALSE, v |-> <<>>]
Some(S) == {[has |-> TRUE, v |-> x] : x \in S}

\* a row of a file with the default headers: a dict from the columns it
\* carries to their values
RowOf(m, mc, rc, a) ==
    [c \in  (IF m.has THEN {DefaultMerchantColumn} ELSE {})
       \cup (IF mc.has THEN {DefaultMerchantCategoryColumn} ELSE {})
       \cup (IF rc.has THEN {DefaultRegisteredCategoryColumn} ELSE {})
       \cup (IF a.has THEN {amount_column} ELSE {})
     |-> IF c = DefaultMerchantColumn THEN m.v
         ELSE IF c = DefaultMerchantCategoryColumn THEN mc.v
         ELSE IF c = DefaultRegisteredCategoryColumn THEN rc.v
         ELSE a.v]

Rows ==
    {RowOf(m, mc, rc, a) :
        m \in Some(MerchantNames) \cup {Absent},
        mc \in Some(MerchantCategoryLabels) \cup {Absent},
        rc \in Some(RegisteredCategoryLabels) \cup {Absent},
        a \in Some(Amounts) \cup {Absent}}

\* the words whose order in a set the interpreter's str hash decides
HashedWords ==
    UNION {Range(split(lower(n))) : n \in {x \in MerchantNames : Len(split(x)) > 1}}

\* the orders in which a process may iterate a set of these words
HashOrders ==
    {p \in [1..Cardinality(HashedWords) -> HashedWords] :
        \A i, j \in DOMAIN p : p[i] = p[j] => i = j}


----------------------------------------------------------------------------
(* set_category_mapper *)

EmptyDict == <<>>

\* dict_set with a fault: the dict is replaced by one that holds the new
\* entry alone
dict_set_alone(d, key, value) == [k \in {key} |-> value]

\* dict_set with a fault: a key that is present keeps its value
dict_set_keep_first(d, key, value) ==
    [k \in DOMAIN d \cup {key} |-> IF k \in DOMAIN d THEN d[k] ELSE value]

\* d[key] = value
dict_set(d, key, value) ==
    [k \in DOMAIN d \cup {key} |-> IF k = key THEN value ELSE d[k]]

\* entry_mapping with a fault: the pair of a raw dict is stored as it is
\* given, without constructing a CategoryMapping from it
entry_mapping_unvalidated(value) ==
    [ok |-> TRUE, value |-> Mapping(value.category, value.subcategory)]

\* the value stored for an entry (lines 305-311): the instance as it is, or
\* the CategoryMapping built from the raw dict
entry_mapping(value) ==
    IF value.kind = "CategoryMapping"
    THEN [ok |-> TRUE, value |-> Mapping(value.category, value.subcategory)]
    ELSE CategoryMapping(value.category, value.subcategory)

\* store_entries with a fault: the keys are stored as they are written
RECURSIVE store_entries_as_written(_, _, _)
store_entries_as_written(target_mappings, mapper, i) ==
    IF i > Len(mapper)
    THEN [table |-> target_mappings, raised |-> "none"]
    ELSE LET built == entry_mapping(mapper[i][2])
         IN IF built.ok
            THEN store_entries_as_written(
                     dict_set(target_mappings, mapper[i][1], built.value), mapper, i + 1)
            ELSE [table |-> target_mappings, raised |-> "ValidationError"]

\* store_entries with a fault: the entries are written only if every one of
\* them can be built
RECURSIVE store_entries_all_or_nothing(_, _, _)
store_entries_all_or_nothing(target_mappings, mapper, i) ==
    IF \E j \in i..Len(mapper) : ~entry_mapping(mapper[j][2]).ok
    THEN [table |-> target_mappings, raised |-> "ValidationError"]
    ELSE IF i > Len(mapper)
    THEN [table |-> target_mappings, raised |-> "none"]
    ELSE store_entries_all_or_nothing(
             dict_set(target_mappings, lower(mapper[i][1]),
                      entry_mapping(mapper[i][2]).value), mapper, i + 1)

\* the loop over mapper.items() from item i on: each key is lowercased and
\* written at once; the first entry that cannot be built raises, and what
\* was written before it stays
RECURSIVE store_entries(_, _, _)
store_entries(target_mappings, mapper, i) ==
    IF i > Len(mapper)
    THEN [table |-> target_mappings, raised |-> "none"]
    ELSE LET key_lower == lower(mapper[i][1])
             built == entry_mapping(mapper[i][2])
         IN IF built.ok
            THEN store_entries(dict_set(target_mappings, key_lower, built.value),
                               mapper, i + 1)
            ELSE [table |-> target_mappings, raised |-> "ValidationError"]

\* the three tables with table `target` as the loop r left it, and what
\* the loop raised
written(mappings, target, r) ==
    [mappings |-> [mappings EXCEPT ![target] = r.table], raised |-> r.raised,
     target |-> target]

\* seeded with a fault: a name that is none of the column attributes falls
\* through to the merchant table
seeded_unknown_as_merchant(mappings, cols, mapper, mapper_type) ==
    LET target == IF mapper_type = cols[2] THEN 2
                  ELSE IF mapper_type = cols[3] THEN 3
                  ELSE 1
    IN written(mappings, target, store_entries(mappings[target], mapper, 1))

\* set_category_mapper(mapper, mapper_type) on a processor with the three
\* tables `mappings` and the three column attributes `cols`: the table is
\* chosen by comparing mapper_type with the column attributes in turn (lines
\* 291-296), an unknown name raises ValueError before anything is written
\* (line 298)
seeded(mappings, cols, mapper, mapper_type) ==
    LET target == IF mapper_type = cols[1] THEN 1
                  ELSE IF mapper_type = cols[2] THEN 2
                  ELSE IF mapper_type = cols[3] THEN 3
                  ELSE 0
    IN IF target = 0
       THEN [mappings |-> mappings, raised |-> "ValueError", target |-> 0]
       ELSE written(mappings, target, store_entries(mappings[target], mapper, 1))

\* the state of the merchant table after __init__ (line 279)
ConstructedMerchantMappings ==
    store_entries(EmptyDict, SUGGESTED_MERCHANT_MAPPING, 1).table

----------------------------------------------------------------------------
(* _map_category *)

\* row.get(column) is truthy
row_has(row, column) ==
    /\ column # NoColumn
    /\ column \in DOMAIN row
    /\ row[column] # <<>>

Miss == [hit |-> FALSE, value |-> Mapping("None", None)]
Hit(mapping) == [hit |-> TRUE, value |-> mapping]

\* dict_get with a fault: any key of the dict that is a part of the probed
\* string matches
dict_get_containing(d, key) ==
    LET parts == {k \in DOMAIN d : contains(key, k)} IN
    IF parts = {} THEN Miss ELSE Hit(d[CHOOSE k \in parts : TRUE])

\* d.get(key), as the walrus test sees it
dict_get(d, key) == IF key \in DOMAIN d THEN Hit(d[key]) ELSE Miss

\* the order in which `for word in set(words)` visits the words: duplicates
\* collapse, and the order is the one the process's str hash gives
set_iteration(words, order) ==
    IF Cardinality(Range(words)) <= 1
    THEN IF words = <<>> THEN <<>> ELSE <<words[1]>>
    ELSE SelectSeq(order, LAMBDA w : w \in Range(words))

\* first_word_match with a fault: the words of the name are not tried
first_word_match_never(d, ws) == Miss

\* the first word, in the order given, that is a key of the table
first_word_match(d, ws) ==
    LET hits == {i \in DOMAIN ws : ws[i] \in DOMAIN d} IN
    IF hits = {} THEN Miss
    ELSE Hit(d[ws[CHOOSE i \in hits : \A j \in hits : i <= j]])

\* merchant_match with a fault: the words of the name are tried before the
\* whole name
merchant_match_words_first(row, mm, order) ==
    IF row_has(row, merchant_column)
    THEN LET merchant_lower == lower(row[merchant_column])
             word == first_word_match(mm, set_iteration(split(merchant_lower), order))
         IN IF word.hit THEN word ELSE dict_get(mm, merchant_lower)
    ELSE Miss

\* lines 324-336: the exact match, then any word of the name
merchant_match(row, mm, order) ==
    IF row_has(row, merchant_column)
    THEN LET merchant_lower == lower(row[merchant_column])
             exact == dict_get(mm, merchant_lower)
         IN IF exact.hit THEN exact
            ELSE first_word_match(mm, set_iteration(split(merchant_lower), order))
    ELSE Miss

\* lines 339-342
merchant_category_match(row, mcm) ==
    IF row_has(row, merchant_category_column)
    THEN dict_get(mcm, lower(row[merchant_category_column]))
    ELSE Miss

\* lines 345-350
registered_category_match(row, rcm) ==
    IF row_has(row, registered_category_column)
    THEN dict_get(rcm, lower(row[registered_category_column]))
    ELSE Miss

\* line 352
default_mapping(row) == CategoryMapping("SHOPPING", None).value

\* map_category with a fault: the registered category is looked up before
\* the merchant category
map_category_registered_first(row, mm, mcm, rcm, order) ==
    LET m == merchant_match(row, mm, order)
        mc == merchant_category_match(row, mcm)
        rc == registered_category_match(row, rcm)
    IN IF m.hit THEN m.value
       ELSE IF rc.hit THEN rc.value
       ELSE IF mc.hit THEN mc.value
       ELSE default_mapping(row)

\* map_category with a fault: without the final return, a row that no
\* strategy matches gets no mapping
map_category_no_default(row, mm, mcm, rcm, order) ==
    LET m == merchant_match(row, mm, order)
        mc == merchant_category_match(row, mcm)
        rc == registered_category_match(row, rcm)
    IN IF m.hit THEN m.value
       ELSE IF mc.hit THEN mc.value
       ELSE rc.value

\* _map_category(row) on tables mm, mcm, rcm in a process with set order `order`
map_category(row, mm, mcm, rcm, order) ==
    LET m == merchant_match(row, mm, order)
        mc == merchant_category_match(row, mcm)
        rc == registered_category_match(row, rcm)
    IN IF m.hit THEN m.value
       ELSE IF mc.hit THEN mc.value
       ELSE IF rc.hit THEN rc.value
       ELSE default_mapping(row)

----------------------------------------------------------------------------
(* State machine *)

NoRow == RowOf(Absent, Absent, Absent, Absent)
NoCall ==
    [done |-> FALSE, row |-> NoRow, row_after |-> NoRow, raised |-> "none",
     result |-> Mapping("None", None)]

tables == <<merchant_mappings, merchant_category_mappings, registered_category_mappings>>

\* no CategoryMapping(...) construction by a caller yet
NoMade ==
    [done |-> FALSE, category |-> "None", subcategory |-> None,
     result |-> [ok |-> FALSE, value |-> Mapping("None", None)]]

\* no transform_data call yet
NoTransformed ==
    [done |-> FALSE, frame |-> <<>>, transactions |-> <<>>, raised |-> "none"]

\* no _split_batch call yet
NoSplit == [done |-> FALSE, transactions |-> <<>>, max_size |-> 1, chunks |-> <<>>]

\* no export_to_api call yet
NoExport ==
    [pc |-> "idle", source |-> "None", dry_run |-> FALSE, again |-> FALSE,
     given |-> <<>>, transactions |-> <<>>, batches |-> <<>>, opened |-> <<>>,
     returned |-> <<>>, raised |-> "none", index |-> 0]

\* a concrete subclass that adds nothing to BaseTransactionProcessor.__init__
\* (the class itself is abstract)
PlainProcessor == [class |-> "BaseTransactionProcessor", constructed |-> TRUE]

\* two processors right after BaseTransactionProcessor.__init__, in a fresh
\* interpreter process
Init ==
    /\ merchant_column = DefaultMerchantColumn
    /\ merchant_category_column = DefaultMerchantCategoryColumn
    /\ registered_category_column = DefaultRegisteredCategoryColumn
    /\ suggested_merchant_mapping = SUGGESTED_MERCHANT_MAPPING
    /\ merchant_mappings = ConstructedMerchantMappings
    /\ merchant_category_mappings = EmptyDict
    /\ registered_category_mappings = EmptyDict
    /\ peer_mappings = <<ConstructedMerchantMappings, EmptyDict, EmptyDict>>
    /\ processor = PlainProcessor
    /\ hash_order \in HashOrders
    /\ call = NoCall
    /\ error = "none"
    /\ made = NoMade
    /\ transformed = NoTransformed
    /\ split_call = NoSplit
    /\ export = NoExport

\* processor.set_category_mapper(mapper, mapper_type)
set_category_mapper(mapper, mapper_type) ==
    \E r \in {seeded(tables, columns, mapper, mapper_type)} :
    /\ merchant_mappings' = r.mappings[1]
    /\ merchant_category_mappings' = r.mappings[2]
    /\ registered_category_mappings' = r.mappings[3]
    /\ error' = r.raised
    /\ call' = NoCall
    /\ UNCHANGED <<hash_order, outside>>

SetCategoryMapper ==
    \E mapper_type \in MapperTypes :
        \E mapper \in Mappers(mapper_type) :
            set_category_mapper(mapper, mapper_type)

\* MapCategory with a fault: a match found through a word of the name is
\* remembered under the whole name
MapCategory_remembering ==
    \E row \in Rows :
        LET result == map_category(row, merchant_mappings, merchant_category_mappings,
                                   registered_category_mappings, hash_order)
        IN /\ call' = [done |-> TRUE, row |-> row, row_after |-> row,
                       raised |-> "none", result |-> result]
           /\ merchant_mappings' =
                 IF row_has(row, merchant_column)
                 THEN dict_set(merchant_mappings, lower(row[merchant_column]), result)
                 ELSE merchant_mappings
           /\ error' = "none"
           /\ UNCHANGED <<merchant_category_mappings, registered_category_mappings,
                          hash_order, outside>>

\* processor._map_category(row): the row is only read (row.get), so the
\* caller's dict is after the call what it was before
MapCategory ==
    \E row \in Rows :
        /\ call' = [done |-> TRUE, row |-> row, row_after |-> row, raised |-> "none",
                    result |-> map_category(row, merchant_mappings,
                                            merchant_category_mappings,
                                            registered_category_mappings,
                                            hash_order)]
        /\ error' = "none"
        /\ UNCHANGED <<merchant_mappings, merchant_category_mappings,
                       registered_category_mappings, hash_order, outside>>

\* the same program is run again in a new interpreter process: it constructs
\* the processor and repeats its set_category_mapper calls, which gives the
\* same tables; the str hash seed of the process, and with it the order in
\* which a set of words is iterated, is drawn anew
Restart ==
    /\ hash_order' \in HashOrders
    /\ UNCHANGED <<merchant_mappings, merchant_category_mappings,
                   registered_category_mappings, call, error, outside>>

Next == SetCategoryMapper \/ MapCategory \/ Restart

Spec == Init /\ [][Next]_vars

----------------------------------------------------------------------------
(* The provider processors (processors/*.py) *)

ProviderClasses ==
    {"SwisscardProcessor", "VisecaProcessor", "MigrosProcessor", "ZKBProcessor"}

\* the class tables of the providers, their first entries in dict order
SwisscardMerchantMapping ==
    << << <<"C","o","o","p">>, RawDict("Groceries", None) >>,
       << <<"C","o","o","p"," ","P","r","o","n","t","o">>,
          RawDict("Groceries", Str("Snacks")) >> >>
SwisscardMerchantCategoryMapping ==
    << << <<"A","u","t","o">>, RawDict("Transit", None) >>,
       << <<"F","o","o","d"," ","a","n","d"," ","D","r","i","n","k">>,
          RawDict("Dining", None) >> >>
SwisscardRegisteredCategoryMapping ==
    << << <<"S","H","O","E"," ","S","T","O","R","E","S">>,
          RawDict("Shopping", Str("Clothes")) >> >>
VisecaMerchantMapping ==
    << << <<"D","e","n","n","e","r">>, RawDict("Groceries", Str("Meal")) >> >>
VisecaMerchantCategoryMapping ==
    << << <<"B","a","k","e","r","y">>, RawDict("Dining", None) >>,
       << <<"C","a","n","t","e","e","n">>, RawDict("Dining", Str("Work")) >> >>

\* the provider's own merchant table, empty for a class that defines none
OwnMerchantMapping(class) ==
    IF class = "SwisscardProcessor" THEN SwisscardMerchantMapping
    ELSE IF class = "VisecaProcessor" THEN VisecaMerchantMapping
    ELSE <<>>

\* self.SUGGESTED_MERCHANT_MAPPING read on an instance of the class: the
\* attribute of the class itself where it defines one, else the one of
\* BaseTransactionProcessor
class_attribute(class) ==
    IF class \in {"SwisscardProcessor", "VisecaProcessor"}
    THEN OwnMerchantMapping(class)
    ELSE suggested_merchant_mapping

\* the statements of a provider's __init__ after super().__init__(), in order
Assign(attribute, value) == [op |-> "assign", attribute |-> attribute, value |-> value]
Seed(mapper, attribute) == [op |-> "seed", mapper |-> mapper, attribute |-> attribute]
Call(name) == [op |-> "call", name |-> name]

InitBody(class) ==
    IF class = "SwisscardProcessor"
    THEN << Assign(1, "Merchant"), Assign(2, "Merchant Category"),
            Assign(3, "Registered Category"),
            Seed(SwisscardMerchantCategoryMapping, 2),
            Seed(SwisscardRegisteredCategoryMapping, 3),
            Seed(SwisscardMerchantMapping, 1) >>
    ELSE IF class = "VisecaProcessor"
    THEN << Assign(1, "Name"), Assign(2, "PFMCategoryName"), Assign(3, NoColumn),
            Seed(VisecaMerchantMapping, 1),
            Seed(VisecaMerchantCategoryMapping, 2) >>
    ELSE IF class = "MigrosProcessor"
    THEN << Assign(1, "Buchungstext"), Call("set_default_merchant_mapping") >>
    ELSE IF class = "ZKBProcessor"
    THEN << Assign(1, "Booking text"), Assign(2, NoColumn), Assign(3, NoColumn),
            Call("set_default_merchant_mapping") >>
    ELSE <<>>

\* the methods a processor has
Methods == {"set_category_mapper", "_map_category", "load_data", "transform_data", "process"}

\* ProcessorConfig with a fault: the three dicts are those of a default
\* shared by every instance
ProcessorConfig_shared(instance) == [t \in 1..3 |-> <<"default", t>>]

\* ProcessorConfig(name=name): the three dict objects of the config of an
\* instance, each made for it by default_factory=dict
ProcessorConfig(instance) == [t \in 1..3 |-> <<instance, t>>]

\* the tables `mappings` of instance `other` after table `target` of
\* instance `writer` has become `table`: a table of `other` shows the
\* write iff it is the same dict object
after_write(other, mappings, writer, target, table) ==
    [t \in 1..3 |->
        IF target # 0 /\ ProcessorConfig(other)[t] = ProcessorConfig(writer)[target]
        THEN table ELSE mappings[t]]

\* an instance under construction: its tables, its column attributes and
\* the exception raised so far
Object(mappings, cols, raised) == [mappings |-> mappings, cols |-> cols, raised |-> raised]

\* BaseTransactionProcessor.__init__ on a fresh instance of the class: a new
\* ProcessorConfig with three empty tables, the default columns, then the
\* seed of self.SUGGESTED_MERCHANT_MAPPING
base_init(class) ==
    LET cols == <<DefaultMerchantColumn, DefaultMerchantCategoryColumn,
                  DefaultRegisteredCategoryColumn>>
        r == seeded(<<EmptyDict, EmptyDict, EmptyDict>>, cols,
                    class_attribute(class), cols[1])
    IN Object(r.mappings, cols, r.raised)

\* the statements of the body from statement i on; the first exception ends
\* the construction
RECURSIVE run_body(_, _, _)
run_body(obj, body, i) ==
    IF obj.raised # "none" \/ i > Len(body) THEN obj
    ELSE LET st == body[i] IN
         IF st.op = "assign"
         THEN run_body(Object(obj.mappings, [obj.cols EXCEPT ![st.attribute] = st.value],
                              "none"), body, i + 1)
         ELSE IF st.op = "seed"
         THEN LET r == seeded(obj.mappings, obj.cols, st.mapper, obj.cols[st.attribute])
              IN run_body(Object(r.mappings, obj.cols, r.raised), body, i + 1)
         ELSE IF st.name \in Methods
              THEN run_body(obj, body, i + 1)
              ELSE Object(obj.mappings, obj.cols, "AttributeError")

\* class(...): the whole __init__ of the provider
constructed(class) == run_body(base_init(class), InitBody(class), 1)

\* rows given to a processor: each of the three fields absent, empty or
\* filled, and an amount
ProviderRows ==
    {RowOf(m, mc, rc, a) :
        m \in Some({<<>>, <<"C","o","o","p">>}) \cup {Absent},
        mc \in Some({<<>>, <<"F","o","o","d">>}) \cup {Absent},
        rc \in Some({<<>>, <<"B","a","r","s">>}) \cup {Absent},
        a \in Some({0})}

\* the seed calls made on a processor: the table name given, and the mapper
ProviderSeeds ==
    { << DefaultMerchantColumn,
         << << <<"C","o","o","p">>,
               Instance("ESSENTIALS", <<"EssentialsSubcategory", "GROCERIES">>) >> >> >>,
      << DefaultMerchantColumn,
         << << <<"C","o","o","p">>,
               Instance("ESSENTIALS", <<"EssentialsSubcategory", "GROCERIES">>) >>,
            << <<"P","u","b">>, RawDict("Dining", Str("Social")) >>,
            << <<"K","i","n","o">>, Instance("LEISURE", None) >> >> >>,
      << DefaultMerchantCategoryColumn,
         << << <<"F","o","o","d">>, Instance("DINING", None) >> >> >>,
      << DefaultRegisteredCategoryColumn,
         << << <<"B","a","r","s">>, Instance("LEISURE", None) >> >> >>,
      << NoColumn,
         << << <<"F","o","o","d">>, Instance("DINING", <<"DiningSubcategory", "WORK">>) >> >> >> }

\* the seed calls made on the second instance
PeerSeeds ==
    {sd \in ProviderSeeds :
        sd[1] \in {DefaultMerchantColumn, DefaultMerchantCategoryColumn} /\ Len(sd[2]) = 1}

PeerColumns ==
    <<DefaultMerchantColumn, DefaultMerchantCategoryColumn, DefaultRegisteredCategoryColumn>>

\* processor = class(...) for a provider class, in place of self
Construct ==
    \E class \in ProviderClasses :
        LET obj == constructed(class) IN
        /\ merchant_mappings' = obj.mappings[1]
        /\ merchant_category_mappings' = obj.mappings[2]
        /\ registered_category_mappings' = obj.mappings[3]
        /\ merchant_column' = obj.cols[1]
        /\ merchant_category_column' = obj.cols[2]
        /\ registered_category_column' = obj.cols[3]
        /\ processor' = [class |-> class, constructed |-> obj.raised = "none"]
        /\ error' = obj.raised
        /\ call' = NoCall
        /\ transformed' = NoTransformed
        /\ UNCHANGED <<hash_order, peer_mappings, suggested_merchant_mapping, made,
                       split_call, export>>

\* self.merchant_category_column = ... and self.registered_category_column = ...
\* as the __init__ of a subclass assigns them (zkb.py lines 17 and 19)
AssignColumns ==
    /\ processor.constructed
    /\ \E mc \in {DefaultMerchantCategoryColumn, NoColumn} :
       \E rc \in {DefaultRegisteredCategoryColumn, NoColumn} :
          /\ merchant_category_column' = mc
          /\ registered_category_column' = rc
    /\ call' = NoCall
    /\ error' = "none"
    /\ UNCHANGED <<merchant_mappings, merchant_category_mappings,
                   registered_category_mappings, hash_order, merchant_column,
                   processor, peer_mappings, suggested_merchant_mapping, made,
                   client>>

\* processor.set_category_mapper(mapper, mapper_type) on self
ProviderSeed ==
    /\ processor.constructed
    /\ \E sd \in ProviderSeeds :
          \E r \in {seeded(tables, columns, sd[2], sd[1])} :
          /\ merchant_mappings' = r.mappings[1]
          /\ merchant_category_mappings' = r.mappings[2]
          /\ registered_category_mappings' = r.mappings[3]
          /\ peer_mappings' = IF r.target = 0 THEN peer_mappings
                              ELSE after_write("peer", peer_mappings, "self",
                                               r.target, r.mappings[r.target])
          /\ error' = r.raised
    /\ call' = NoCall
    /\ UNCHANGED <<hash_order, columns, processor, suggested_merchant_mapping, made,
                   client>>

\* peer.set_category_mapper(mapper, mapper_type) on the second instance
PeerSeed ==
    /\ \E sd \in PeerSeeds :
          \E r \in {seeded(peer_mappings, PeerColumns, sd[2], sd[1])} :
          \E mine \in {IF r.target = 0 THEN tables
                        ELSE after_write("self", tables, "peer",
                                         r.target, r.mappings[r.target])} :
             /\ peer_mappings' = r.mappings
             /\ merchant_mappings' = mine[1]
             /\ merchant_category_mappings' = mine[2]
             /\ registered_category_mappings' = mine[3]
             /\ error' = r.raised
    /\ call' = NoCall
    /\ UNCHANGED <<hash_order, columns, processor, suggested_merchant_mapping, made,
                   client>>

\* processor._map_category(row) on self
ProviderResolve ==
    /\ processor.constructed
    /\ \E row \in ProviderRows :
          call' = [done |-> TRUE, row |-> row, row_after |-> row, raised |-> "none",
                   result |-> map_category(row, merchant_mappings,
                                           merchant_category_mappings,
                                           registered_category_mappings,
                                           hash_order)]
    /\ error' = "none"
    /\ UNCHANGED <<merchant_mappings, merchant_category_mappings,
                   registered_category_mappings, hash_order, outside>>

ProviderNext ==
    Construct \/ AssignColumns \/ ProviderSeed \/ PeerSeed \/ ProviderResolve

ProviderSpec == Init /\ [][ProviderNext]_vars

----------------------------------------------------------------------------
(* CategoryMapping construction by a caller *)

\* the arguments a caller constructs a mapping from: a Category member, and
\* a member of any subcategory enum or None
CategoryArguments == Category
SubcategoryArguments == Subcategory \cup {None}

\* CategoryMapping(category=category, subcategory=subcategory)
MakeMapping ==
    /\ \E category \in CategoryArguments :
       \E subcategory \in SubcategoryArguments :
          made' = [done |-> TRUE, category |-> category, subcategory |-> subcategory,
                   result |-> CategoryMapping(category, subcategory)]
    /\ UNCHANGED <<merchant_mappings, merchant_category_mappings,
                   registered_category_mappings, hash_order, call, error,
                   columns, processor, peer_mappings, suggested_merchant_mapping,
                   client>>

MappingNext == MakeMapping

MappingSpec == Init /\ [][MappingNext]_vars


----------------------------------------------------------------------------
(* What the claims speak of, stated on the row and the tables *)

Twint == <<"t","w","i","n","t">>

\* the row carries a non-empty value in the column
HasField(r, column) == column \in DOMAIN r /\ r[column] # <<>>

MerchantName(r) == lower(r[merchant_column])
MerchantTokens(r) == split(MerchantName(r))

ExactMatch(r) ==
    HasField(r, merchant_column) /\ MerchantName(r) \in DOMAIN merchant_mappings

\* the positions, left to right, of the tokens that are keys of the merchant table
MatchingTokens(r) ==
    IF HasField(r, merchant_column)
    THEN {i \in DOMAIN MerchantTokens(r) : MerchantTokens(r)[i] \in DOMAIN merchant_mappings}
    ELSE {}

TokenMatch(r) == ~ExactMatch(r) /\ MatchingTokens(r) # {}

MerchantCategoryHit(r) ==
    /\ HasField(r, merchant_category_column)
    /\ lower(r[merchant_category_column]) \in DOMAIN merchant_category_mappings

RegisteredCategoryHit(r) ==
    /\ HasField(r, registered_category_column)
    /\ lower(r[registered_category_column]) \in DOMAIN registered_category_mappings

NoTableMatch(r) ==
    /\ ~ExactMatch(r) /\ ~TokenMatch(r)
    /\ ~MerchantCategoryHit(r) /\ ~RegisteredCategoryHit(r)

IsTwint(r) == HasField(r, merchant_column) /\ contains(MerchantName(r), Twint)

HasAmount(r) == amount_column \in DOMAIN r

----------------------------------------------------------------------------
(* C1 *)

\* C1: a row whose lowercased merchant name is a key of the merchant table
\* resolves to the mapping stored under that key, whatever the other two
\* tables hold for its labels and whatever the tokens of the name match.
C1_ExactMerchantWins ==
    (call.done /\ ExactMatch(call.row))
        => /\ call.raised = "none"
           /\ call.result = merchant_mappings[MerchantName(call.row)]

\* an exact match on a name whose tokens match other entries, on a row whose
\* merchant-category label has an entry as well
C1_Witness ==
    /\ call.done /\ ExactMatch(call.row)
    /\ MatchingTokens(call.row) # {}
    /\ \A i \in MatchingTokens(call.row) :
          merchant_mappings[MerchantTokens(call.row)[i]] # call.result
    /\ MerchantCategoryHit(call.row)
    /\ merchant_category_mappings[lower(call.row[merchant_category_column])] # call.result
    /\ call.result = merchant_mappings[MerchantName(call.row)]

----------------------------------------------------------------------------
(* C2 *)

\* C2: when the whole name is no key but a token of it is, the result is the
\* mapping stored under a matching token, not one of the merchant-category or
\* registered-category table.
C2_TokenFallback ==
    (call.done /\ TokenMatch(call.row))
        => /\ call.raised = "none"
           /\ \E i \in MatchingTokens(call.row) :
                 call.result = merchant_mappings[MerchantTokens(call.row)[i]]

\* a token match on a row whose two labels both have entries that differ
\* from the result
C2_Witness ==
    /\ call.done /\ TokenMatch(call.row)
    /\ MerchantCategoryHit(call.row) /\ RegisteredCategoryHit(call.row)
    /\ merchant_category_mappings[lower(call.row[merchant_category_column])] # call.result
    /\ registered_category_mappings[lower(call.row[registered_category_column])] # call.result
    /\ \E i \in MatchingTokens(call.row) :
          call.result = merchant_mappings[MerchantTokens(call.row)[i]]

----------------------------------------------------------------------------
(* C3 *)

\* the leftmost token of the name that is a key of the merchant table
FirstMatchingToken(r) ==
    MerchantTokens(r)[CHOOSE i \in MatchingTokens(r) : \A j \in MatchingTokens(r) : i <= j]

\* the matching tokens of the name do not all carry the same mapping
AmbiguousTokens(r) ==
    /\ TokenMatch(r)
    /\ \E i, j \in MatchingTokens(r) :
          merchant_mappings[MerchantTokens(r)[i]] # merchant_mappings[MerchantTokens(r)[j]]

\* C3: with several matching tokens of different mappings, the result is the
\* mapping of the matching token that comes first in the merchant string.
C3_LeftmostTokenWins ==
    (call.done /\ AmbiguousTokens(call.row))
        => call.result = merchant_mappings[FirstMatchingToken(call.row)]

----------------------------------------------------------------------------
(* C4 *)

\* C4: for a fixed table state two calls on equal rows return equal mappings
\* (the record of the last call is kept only while the tables are unchanged).
C4_Deterministic ==
    [][(call.done /\ call'.done /\ call'.row = call.row)
          => call'.result = call.result]_vars


----------------------------------------------------------------------------
(* C5 *)

MerchantHit(r) == ExactMatch(r) \/ TokenMatch(r)

MerchantResults(r) ==
    IF ExactMatch(r) THEN {merchant_mappings[MerchantName(r)]}
    ELSE {merchant_mappings[MerchantTokens(r)[i]] : i \in MatchingTokens(r)}

\* C5: the merchant-category entry is the result only when neither merchant
\* strategy matched, and the registered-category entry only when the
\* merchant-category lookup found nothing either; with entries for both
\* labels the merchant-category entry is the result.
C5_CategoryStrategyOrder ==
    call.done =>
        /\ MerchantHit(call.row) => call.result \in MerchantResults(call.row)
        /\ (~MerchantHit(call.row) /\ MerchantCategoryHit(call.row))
              => call.result =
                    merchant_category_mappings[lower(call.row[merchant_category_column])]
        /\ (~MerchantHit(call.row) /\ ~MerchantCategoryHit(call.row)
                /\ RegisteredCategoryHit(call.row))
              => call.result =
                    registered_category_mappings[lower(call.row[registered_category_column])]

\* no merchant match, and entries of different mappings for both labels
C5_Witness ==
    /\ call.done /\ ~MerchantHit(call.row)
    /\ HasField(call.row, merchant_column)
    /\ MerchantCategoryHit(call.row) /\ RegisteredCategoryHit(call.row)
    /\ merchant_category_mappings[lower(call.row[merchant_category_column])]
          # registered_category_mappings[lower(call.row[registered_category_column])]
    /\ call.result = merchant_category_mappings[lower(call.row[merchant_category_column])]

----------------------------------------------------------------------------
(* C7, C8, C9, C10: the default path *)

\* C7: no table match and an amount > 0 give Income, with the Income Twint
\* subcategory iff the merchant name contains "twint".
C7_DefaultPositiveAmount ==
    (call.done /\ NoTableMatch(call.row) /\ HasAmount(call.row)
        /\ call.row[amount_column] > 0)
        => call.result =
              Mapping("INCOME", IF IsTwint(call.row)
                                THEN <<"IncomeSubcategory", "TWINT">> ELSE None)

\* C8: no table match, an amount <= 0 and a merchant name containing "twint"
\* give Dining with the Dining Twint subcategory.
C8_DefaultTwintExpense ==
    (call.done /\ NoTableMatch(call.row) /\ HasAmount(call.row)
        /\ call.row[amount_column] <= 0 /\ IsTwint(call.row))
        => call.result = Mapping("DINING", <<"DiningSubcategory", "TWINT">>)

\* C9: no table match, an amount <= 0 and no "twint" in the merchant name
\* give Shopping without subcategory, and the default path gives Shopping
\* without subcategory in no other case.
C9_DefaultShopping ==
    (call.done /\ NoTableMatch(call.row))
        => ((call.raised = "none" /\ call.result = Mapping("SHOPPING", None))
              <=> (/\ HasAmount(call.row)
                   /\ call.row[amount_column] <= 0
                   /\ ~IsTwint(call.row)))

\* C10: a row without amount that matches no table makes the call raise
\* MissingFieldError; a row that matches a table resolves without an amount.
C10_MissingAmount ==
    (call.done /\ ~HasAmount(call.row))
        => IF NoTableMatch(call.row)
           THEN call.raised = "MissingFieldError"
           ELSE call.raised = "none"


----------------------------------------------------------------------------
(* C6 *)

UpperOf ==
    [c \in {LowerCase[i] : i \in 1..Len(LowerCase)} |->
        UpperCase[CHOOSE i \in 1..Len(LowerCase) : LowerCase[i] = c]]

upper(s) ==
    IF s = <<>> THEN <<>>
    ELSE [i \in 1..Len(s) |-> IF s[i] \in DOMAIN UpperOf THEN UpperOf[s[i]] ELSE s[i]]

\* the ways to change the letter case of a string: all upper, all lower, as it is
Recase(s) == {s, upper(s), lower(s)}

\* the rows that differ from r only in the letter case of the merchant name
\* and of the two labels
RecasedRows(r) ==
    {[c \in DOMAIN r |->
        IF c = merchant_column THEN m
        ELSE IF c = merchant_category_column THEN mc
        ELSE IF c = registered_category_column THEN rc
        ELSE r[c]] :
        m \in IF merchant_column \in DOMAIN r
              THEN Recase(r[merchant_column]) ELSE {<<>>},
        mc \in IF merchant_category_column \in DOMAIN r
               THEN Recase(r[merchant_category_column]) ELSE {<<>>},
        rc \in IF registered_category_column \in DOMAIN r
               THEN Recase(r[registered_category_column]) ELSE {<<>>}}

\* s in the letter case asked for
RecaseAs(s, how) ==
    IF how = "upper" THEN upper(s) ELSE IF how = "lower" THEN lower(s) ELSE s

\* the mappers that differ from mapper only in the letter case of keys
RecasedMappers(mapper) ==
    {[i \in DOMAIN mapper |-> <<RecaseAs(mapper[i][1], how[i]), mapper[i][2]>>] :
        how \in [DOMAIN mapper -> {"same", "upper", "lower"}]}

TableOf(mapper_type) ==
    IF mapper_type = merchant_category_column THEN merchant_category_mappings
    ELSE IF mapper_type = registered_category_column THEN registered_category_mappings
    ELSE merchant_mappings

\* what _map_category returns for r in the current state
Resolve(r) ==
    map_category(r, merchant_mappings, merchant_category_mappings,
                 registered_category_mappings, hash_order)

\* C6: in one process and one table state, changing only the letter case of
\* the row's merchant name and labels does not change the mapping the call
\* returns, and changing only the letter case of the keys of a mapper does
\* not change the table a seed leaves (so no later call can tell the two
\* seeds apart).
C6_CaseInsensitive ==
    /\ call.done =>
          \E resolved \in {Resolve(call.row)} :
              \A r \in RecasedRows(call.row) :
                  Resolve(r) = resolved
    /\ ~call.done =>
          \A mapper_type \in MapperTypes \ {"Category"} :
              \A mapper \in Mappers(mapper_type) :
                  \A recased \in RecasedMappers(mapper) :
                      store_entries(TableOf(mapper_type), recased, 1)
                          = store_entries(TableOf(mapper_type), mapper, 1)

\* a name written in another letter case than its key, resolved through an
\* entry that a seed call added under a key it was not given in lowercase
C6_Witness ==
    /\ call.done /\ ExactMatch(call.row)
    /\ call.row[merchant_column] # MerchantName(call.row)
    /\ MerchantName(call.row) \notin DOMAIN ConstructedMerchantMappings
    /\ call.result = merchant_mappings[MerchantName(call.row)]

----------------------------------------------------------------------------
(* C11 *)

\* x is one CategoryMapping instance
IsCategoryMapping(x) ==
    /\ DOMAIN x = {"category", "subcategory"}
    /\ x.category \in Category
    /\ x.subcategory = None \/ x.subcategory \in Subcategory

\* the row carries the field under the default header, with a value or empty
Carries(r, header) == header \in DOMAIN r

\* C11: a call on a row that carries an amount raises nothing and returns
\* exactly one CategoryMapping, whichever of the merchant name and the two
\* labels are absent or empty, also on a processor whose merchant-category
\* or registered-category column is None.
C11_Total ==
    (call.done /\ HasAmount(call.row))
        => /\ call.raised = "none"
           /\ IsCategoryMapping(call.result)

\* a processor with both label columns None and entries in both label
\* tables, called on a row without a merchant name whose labels are keys of
\* those tables: the call returns the default
C11_Witness ==
    /\ call.done /\ HasAmount(call.row)
    /\ merchant_category_column = NoColumn
    /\ registered_category_column = NoColumn
    /\ ~Carries(call.row, DefaultMerchantColumn)
    /\ Carries(call.row, DefaultMerchantCategoryColumn)
    /\ lower(call.row[DefaultMerchantCategoryColumn]) \in DOMAIN merchant_category_mappings
    /\ Carries(call.row, DefaultRegisteredCategoryColumn)
    /\ lower(call.row[DefaultRegisteredCategoryColumn]) \in DOMAIN registered_category_mappings
    /\ call.raised = "none"
    /\ call.result = Mapping("SHOPPING", None)

\* a row whose three fields are all empty strings
C11_WitnessEmpty ==
    /\ call.done /\ HasAmount(call.row)
    /\ \A c \in {DefaultMerchantColumn, DefaultMerchantCategoryColumn,
                 DefaultRegisteredCategoryColumn} :
          Carries(call.row, c) /\ call.row[c] = <<>>
    /\ IsCategoryMapping(call.result)

----------------------------------------------------------------------------
(* C12 *)

\* the subcategory set registered for a category, empty where none is
SubcategorySet(category) ==
    IF category \in DOMAIN SUBCATEGORY_TYPES
    THEN {<<SUBCATEGORY_TYPES[category], m>> :
             m \in SubcategoryMembers[SUBCATEGORY_TYPES[category]]}
    ELSE {}

\* C12: constructing a CategoryMapping fails exactly when the subcategory is
\* not None and not in the subcategory set registered for the category;
\* otherwise it succeeds and the instance carries the two arguments.
C12_ConstructionFailsIff ==
    made.done =>
        /\ ~made.result.ok
              <=> (made.subcategory # None
                     /\ made.subcategory \notin SubcategorySet(made.category))
        /\ made.result.ok
              => made.result.value = Mapping(made.category, made.subcategory)

\* CategoryMapping(Category.DINING, DiningSubcategory.SOCIAL) is constructed
\* and carries both arguments
C12_Witness ==
    /\ made.done
    /\ made.category = "DINING"
    /\ made.subcategory = <<"DiningSubcategory", "SOCIAL">>
    /\ made.result.ok
    /\ made.result.value.category = "DINING"
    /\ made.result.value.subcategory = <<"DiningSubcategory", "SOCIAL">>

\* CategoryMapping(Category.DINING, ShoppingSubcategory.GIFTS) raises
C12_WitnessInvalid ==
    /\ made.done
    /\ made.category = "DINING"
    /\ made.subcategory = <<"ShoppingSubcategory", "GIFTS">>
    /\ ~made.result.ok

----------------------------------------------------------------------------
(* C13 *)

\* a CategoryMapping whose subcategory is None or in the subcategory set of
\* its category
ValidMapping(x) ==
    /\ IsCategoryMapping(x)
    /\ x.subcategory = None \/ x.subcategory \in SubcategorySet(x.category)

AllValid(d) == \A key \in DOMAIN d : ValidMapping(d[key])

\* C13: whatever constructions, seed calls and resolve calls came before,
\* every mapping stored in a table of a processor and every mapping a call
\* returned is valid.
C13_ValidityInvariant ==
    /\ AllValid(merchant_mappings)
    /\ AllValid(merchant_category_mappings)
    /\ AllValid(registered_category_mappings)
    /\ \A i \in 1..3 : AllValid(peer_mappings[i])
    /\ call.done => ValidMapping(call.result)

\* a seed call has raised on its second entry after writing its first, and
\* a label table holds a mapping with a subcategory
C13_Witness ==
    /\ processor.constructed
    /\ error = "ValidationError"
    /\ <<"c","o","o","p">> \in DOMAIN merchant_mappings
    /\ merchant_mappings[<<"c","o","o","p">>].subcategory # None
    /\ \E key \in DOMAIN merchant_category_mappings :
          merchant_category_mappings[key].subcategory # None

\* a call has returned a stored mapping with a subcategory
C13_WitnessCall ==
    /\ call.done
    /\ call.result.subcategory # None
    /\ \E key \in DOMAIN merchant_mappings : merchant_mappings[key] = call.result

\* the construction of a provider has raised and left a processor behind
C13_WitnessConstruction ==
    /\ ~processor.constructed
    /\ processor.class \in ProviderClasses
    /\ DOMAIN merchant_mappings # {}

----------------------------------------------------------------------------
(* C14 *)

\* the number of entries of the mapper that a seed call applies: all of
\* them, or those before the first one that cannot be built
Applied(mapper) ==
    LET failing == {i \in DOMAIN mapper : ~entry_mapping(mapper[i][2]).ok} IN
    IF failing = {} THEN Len(mapper)
    ELSE (CHOOSE i \in failing : \A j \in failing : i <= j) - 1

\* the applied entries of the mapper whose key lowercases to k
EntriesFor_key(mapper, k) ==
    {i \in 1..Applied(mapper) : lower(mapper[i][1]) = k}

Last(S) == CHOOSE i \in S : \A j \in S : j <= i

\* table `after` is table `before` with the applied entries of the mapper
\* layered on it: one entry per lowercased key, the last applied entry of a
\* key giving its value, every other key as it was
Layered(before, mapper, after) ==
    /\ DOMAIN after =
          DOMAIN before \cup {lower(mapper[i][1]) : i \in 1..Applied(mapper)}
    /\ \A k \in DOMAIN after :
          IF EntriesFor_key(mapper, k) # {}
          THEN after[k] = entry_mapping(mapper[Last(EntriesFor_key(mapper, k))][2]).value
          ELSE after[k] = before[k]

LowercaseKeys(d) == \A k \in DOMAIN d : k = lower(k)

TableIndex(mapper_type) ==
    IF mapper_type = merchant_column THEN 1
    ELSE IF mapper_type = merchant_category_column THEN 2
    ELSE 3

\* C14: every key of every table is lowercase, and every seed call leaves
\* the named table as the table before it with the call's applied entries
\* layered on it, the later entry winning where keys lowercase to the same
\* string; so after any sequence of seed calls a key carries the value of
\* the most recently applied entry that lowercases to it.
C14_SeedLayering ==
    /\ LowercaseKeys(merchant_mappings)
    /\ LowercaseKeys(merchant_category_mappings)
    /\ LowercaseKeys(registered_category_mappings)
    /\ ~call.done =>
          \A mapper_type \in MapperTypes \ {"Category"} :
              \A mapper \in Mappers(mapper_type) :
                  Layered(tables[TableIndex(mapper_type)], mapper,
                          seeded(tables, columns, mapper, mapper_type)
                              .mappings[TableIndex(mapper_type)])

\* both label tables hold one entry, under the lowercased key, with the
\* value of the entry given later, for keys that were given in two letter
\* cases (the later one in upper case for one table, in mixed case for the
\* other), and the merchant table has its default of "kir" overwritten
C14_Witness ==
    /\ DOMAIN merchant_category_mappings = {<<"f","o","o","d">>}
    /\ merchant_category_mappings[<<"f","o","o","d">>]
          = Mapping("DINING", <<"DiningSubcategory", "WORK">>)
    /\ DOMAIN registered_category_mappings = {<<"b","a","r","s">>}
    /\ registered_category_mappings[<<"b","a","r","s">>] = Mapping("LEISURE", None)
    /\ merchant_mappings[<<"k","i","r">>] = Mapping("DINING", None)

----------------------------------------------------------------------------
(* C15 *)

\* the names of a raw dict are a valid pair: the name of a category, and no
\* subcategory or the name of a member of that category's subcategory set
ValidPair(category, subcategory) ==
    /\ \E c \in Category : CategoryValue[c] = category
    /\ \/ subcategory = None
       \/ \E c \in Category :
             /\ CategoryValue[c] = category
             /\ \E m \in SubcategorySet(c) : subcategory = Str(SubcategoryValue[m])

\* the CategoryMapping a valid pair of names stands for
MappingOfPair(category, subcategory) ==
    LET c == CHOOSE c \in Category : CategoryValue[c] = category IN
    Mapping(c, IF subcategory = None THEN None
               ELSE CHOOSE m \in SubcategorySet(c) : subcategory = Str(SubcategoryValue[m]))

RawEntries(mapper_type) == {e \in EntriesFor(mapper_type) : e[2].kind = "dict"}

\* C15: a seed call with one raw entry stores the CategoryMapping of the
\* pair when the pair is valid, subcategory included, and raises without
\* storing anything when it is not.
C15_RawSeedEquivalent ==
    ~call.done =>
        \A mapper_type \in MapperTypes \ {"Category"} :
            \A e \in RawEntries(mapper_type) :
                LET r == seeded(tables, columns, <<e>>, mapper_type)
                    after == r.mappings[TableIndex(mapper_type)]
                IN IF ValidPair(e[2].category, e[2].subcategory)
                   THEN /\ r.raised = "none"
                        /\ lower(e[1]) \in DOMAIN after
                        /\ after[lower(e[1])] = MappingOfPair(e[2].category, e[2].subcategory)
                   ELSE /\ r.raised # "none"
                        /\ after = tables[TableIndex(mapper_type)]

----------------------------------------------------------------------------
(* C16 *)

\* the shared default table as a seed leaves it on an empty table
SharedDefaults == store_entries(EmptyDict, suggested_merchant_mapping, 1).table

\* the entries of the provider's own merchant table whose key lowercases to k
OwnEntries(class, k) ==
    {i \in DOMAIN OwnMerchantMapping(class) : lower(OwnMerchantMapping(class)[i][1]) = k}

\* C16: a constructed provider processor exists (its construction returned),
\* and its merchant table holds every key of the shared default table, with
\* the provider's own value where the provider's merchant table has the key
\* and the shared default value otherwise.
C16_DefaultsUnderOverrides ==
    processor.class \in ProviderClasses =>
        /\ processor.constructed
        /\ \A k \in DOMAIN SharedDefaults :
              /\ k \in DOMAIN merchant_mappings
              /\ merchant_mappings[k] =
                    IF OwnEntries(processor.class, k) # {}
                    THEN entry_mapping(OwnMerchantMapping(processor.class)
                                           [Last(OwnEntries(processor.class, k))][2]).value
                    ELSE SharedDefaults[k]

----------------------------------------------------------------------------
(* C17 *)

\* the table names a caller may give that the processor does not recognize
UnknownNames == MapperTypes \ {merchant_column, merchant_category_column,
                               registered_category_column}

\* C17: a seed call under a name that is none of the three the processor
\* recognizes raises (ValueError is the error of the code), whatever the
\* mapper holds, and leaves the three tables as they were.
C17_UnknownTableName ==
    ~call.done =>
        \A name \in UnknownNames :
            \A mapper \in Mappers(name) :
                LET r == seeded(tables, columns, mapper, name) IN
                /\ r.raised = "ValueError"
                /\ r.mappings = tables

\* a seed call under an unknown name has raised on a processor whose three
\* tables were seeded before, and left them seeded
C17_Witness ==
    /\ error = "ValueError"
    /\ ~call.done
    /\ merchant_mappings # ConstructedMerchantMappings
    /\ merchant_category_mappings # EmptyDict
    /\ registered_category_mappings # EmptyDict

----------------------------------------------------------------------------
(* C18 *)

\* the six tables of the two instances
six == <<merchant_mappings, merchant_category_mappings, registered_category_mappings,
         peer_mappings[1], peer_mappings[2], peer_mappings[3]>>

\* C18: a seed call changes no table but the one it names: the seed calls
\* on self leave every table of self alone that the given name does not
\* select, and a step that is no construction changes at most one of the
\* six tables of the two instances and never the table of the class.
C18_SeedFrame ==
    [][processor' = processor =>
          /\ \A sd \in ProviderSeeds :
                LET r == seeded(tables, columns, sd[2], sd[1]) IN
                \A t \in 1..3 :
                    r.mappings[t] # tables[t] => (r.target = t /\ sd[1] = columns[t])
          /\ Cardinality({t \in 1..6 : six'[t] # six[t]}) <= 1
          /\ suggested_merchant_mapping' = suggested_merchant_mapping]_vars

\* both instances have been seeded, each with a key the other has not, and
\* the table of the class is as the class body defines it
C18_Witness ==
    /\ processor.constructed
    /\ <<"c","o","o","p">> \in DOMAIN merchant_mappings
    /\ <<"c","o","o","p">> \notin DOMAIN peer_mappings[1]
    /\ <<"f","o","o","d">> \in DOMAIN peer_mappings[2]
    /\ <<"f","o","o","d">> \notin DOMAIN merchant_category_mappings
    /\ <<"b","a","r","s">> \in DOMAIN registered_category_mappings
    /\ suggested_merchant_mapping = SUGGESTED_MERCHANT_MAPPING

----------------------------------------------------------------------------
(* C19 *)

\* C19: no step of a processor, seed call or resolve call, takes a key out
\* of one of its three tables.
C19_TablesOnlyGrow ==
    [][/\ DOMAIN merchant_mappings \subseteq DOMAIN merchant_mappings'
       /\ DOMAIN merchant_category_mappings \subseteq DOMAIN merchant_category_mappings'
       /\ DOMAIN registered_category_mappings \subseteq DOMAIN registered_category_mappings']_vars

\* the three tables have grown beyond their state after construction, the
\* merchant table by two keys, and the default keys are still there
C19_Witness ==
    /\ DOMAIN ConstructedMerchantMappings \subseteq DOMAIN merchant_mappings
    /\ Cardinality(DOMAIN merchant_mappings)
          >= Cardinality(DOMAIN ConstructedMerchantMappings) + 2
    /\ merchant_category_mappings # EmptyDict
    /\ registered_category_mappings # EmptyDict
    /\ call.done

----------------------------------------------------------------------------
(* C20 *)

\* C20: a step that ends in a finished call of _map_category, and is more
\* than a new process, leaves the three tables as they were and the row as
\* it was given, whichever strategy gave the result.
C20_ResolveReadOnly ==
    [][(call'.done /\ (call' # call \/ tables' # tables))
          => /\ tables' = tables
             /\ call'.row_after = call'.row]_vars

\* a call that ended in the second strategy, a match through a word of the
\* name, on tables seeded before, which still lack the whole name as a key
C20_Witness ==
    /\ call.done /\ TokenMatch(call.row)
    /\ call.row_after = call.row
    /\ MerchantName(call.row) \notin DOMAIN merchant_mappings
    /\ merchant_mappings # ConstructedMerchantMappings
    /\ call.result \in MerchantResults(call.row)

----------------------------------------------------------------------------
(* A caller that keeps the mapping it was handed (models.py 37-44: the     *)
(* class sets no model_config, so its fields can be assigned, and          *)
(* assignments are not validated)                                          *)

\* the table (1, 2, 3) and the key of the entry that _map_category returns
\* for the row; table 0 for the mapping constructed at line 352, which is
\* no entry of a table
looked_up_from(row, mm, mcm, rcm, order) ==
    LET merchant_lower == lower(row[merchant_column])
        ws == set_iteration(split(merchant_lower), order)
        hits == {i \in DOMAIN ws : ws[i] \in DOMAIN mm}
    IN IF row_has(row, merchant_column) /\ merchant_lower \in DOMAIN mm
       THEN <<1, merchant_lower>>
       ELSE IF row_has(row, merchant_column) /\ hits # {}
       THEN <<1, ws[CHOOSE i \in hits : \A j \in hits : i <= j]>>
       ELSE IF merchant_category_match(row, mcm).hit
       THEN <<2, lower(row[merchant_category_column])>>
       ELSE IF registered_category_match(row, rcm).hit
       THEN <<3, lower(row[registered_category_column])>>
       ELSE <<0, <<>> >>

\* mapping.field = value
assigned(mapping, field, value) == [mapping EXCEPT ![field] = value]

\* the keys under which __init__ stores the objects of the class attribute
\* SUGGESTED_MERCHANT_MAPPING: the same objects are in the merchant table of
\* every instance
SharedKeys == {lower(SUGGESTED_MERCHANT_MAPPING[i][1]) : i \in DOMAIN SUGGESTED_MERCHANT_MAPPING}

\* the seed calls of this caller: each passes mapping objects of its own,
\* under keys that are none of the shared ones
CallerSeeds ==
    {sd \in ProviderSeeds :
        /\ sd[1] \in {DefaultMerchantCategoryColumn, DefaultRegisteredCategoryColumn}
        /\ Len(sd[2]) = 1}

\* what the caller assigns
AssignedValues ==
    [category |-> {"TRAVEL"}, subcategory |-> {None}]

CallerSeed ==
    /\ \E sd \in CallerSeeds :
          \E r \in {seeded(tables, columns, sd[2], sd[1])} :
          /\ merchant_mappings' = r.mappings[1]
          /\ merchant_category_mappings' = r.mappings[2]
          /\ registered_category_mappings' = r.mappings[3]
          /\ error' = r.raised
    /\ call' = NoCall
    /\ UNCHANGED <<hash_order, outside>>

\* m = processor._map_category(row); ...; m.category = value (or
\* m.subcategory = value).  m is the object the table holds, so the entry it
\* was looked up from shows the assignment, and so does every other holder
\* of the same object: the class attribute and the merchant table of the
\* second instance for the shared defaults.
AssignField ==
    /\ call.done
    /\ \E field \in DOMAIN AssignedValues :
       \E value \in AssignedValues[field] :
       \E o \in {looked_up_from(call.row, merchant_mappings, merchant_category_mappings,
                                registered_category_mappings, hash_order)} :
       \E changed \in {assigned(call.result, field, value)} :
          /\ changed # call.result
          /\ call' = [call EXCEPT !.result = changed]
          /\ merchant_mappings' =
                IF o[1] = 1 THEN dict_set(merchant_mappings, o[2], changed)
                ELSE merchant_mappings
          /\ merchant_category_mappings' =
                IF o[1] = 2 THEN dict_set(merchant_category_mappings, o[2], changed)
                ELSE merchant_category_mappings
          /\ registered_category_mappings' =
                IF o[1] = 3 THEN dict_set(registered_category_mappings, o[2], changed)
                ELSE registered_category_mappings
          /\ peer_mappings' =
                IF o[1] = 1 /\ o[2] \in SharedKeys
                THEN [peer_mappings EXCEPT ![1] = dict_set(@, o[2], changed)]
                ELSE peer_mappings
          /\ suggested_merchant_mapping' =
                IF o[1] = 1 /\ o[2] \in SharedKeys
                THEN [i \in DOMAIN suggested_merchant_mapping |->
                        IF lower(suggested_merchant_mapping[i][1]) = o[2]
                        THEN <<suggested_merchant_mapping[i][1],
                               Instance(changed.category, changed.subcategory)>>
                        ELSE suggested_merchant_mapping[i]]
                ELSE suggested_merchant_mapping
    /\ UNCHANGED <<hash_order, error, columns, processor, made, client>>

CallerNext == CallerSeed \/ MapCategory \/ AssignField

CallerSpec == Init /\ [][CallerNext]_vars

----------------------------------------------------------------------------
(* C21 *)

\* C21: a mapping that resolve has returned stays what it was: as long as
\* the caller holds the result of a call for a row, no step changes the
\* category or subcategory of that result, nor any table.
C21_ReturnedImmutable ==
    [][(call.done /\ call'.done /\ call'.row = call.row)
          => (call'.result = call.result /\ tables' = tables)]_vars


----------------------------------------------------------------------------
(* transform_data of the provider classes (processors/*.py) *)

\* longest frame (number of rows) given to one transform_data call
MaxRows == 2

\* self.name as each __init__ defaults it
ProcessorName ==
    [SwisscardProcessor |-> "SwissCard", VisecaProcessor |-> "Viseca",
     MigrosProcessor |-> "Migros Bank", ZKBProcessor |-> "ZKB"]

\* the attributes an instance of the class has besides those of
\* BaseTransactionProcessor.__init__: migros.py line 15 assigns
\* amount_column, no other class does
has_attribute(class, attribute) ==
    attribute = "amount_column" /\ class = "MigrosProcessor"

\* str.split(sep) from position i on, the current piece starting at `start`
RECURSIVE split_on_from(_, _, _, _, _)
split_on_from(s, sep, i, start, acc) ==
    IF i + Len(sep) - 1 > Len(s)
    THEN Append(acc, SubSeq(s, start, Len(s)))
    ELSE IF SubSeq(s, i, i + Len(sep) - 1) = sep
         THEN split_on_from(s, sep, i + Len(sep), i + Len(sep),
                            Append(acc, SubSeq(s, start, i - 1)))
         ELSE split_on_from(s, sep, i + 1, start, acc)

\* str.split(sep)
split_on(s, sep) == split_on_from(s, sep, 1, 1, <<>>)

\* str.strip()
strip(s) ==
    LET kept == {i \in 1..Len(s) : s[i] \notin Whitespace} IN
    IF kept = {} THEN <<>>
    ELSE SubSeq(s, CHOOSE i \in kept : \A j \in kept : i <= j,
                   CHOOSE i \in kept : \A j \in kept : j <= i)

\* the literals of migros.py lines 113-130
KarteMarker == <<"K","a","r","t","e",":"," ","4","7","4","1","2","4">>
TwintMarker == <<"T","W","I","N","T">>
PhoneMarker == <<"+","4","1","7">>
TwintBelastung == <<"T","W","I","N","T"," ","B","e","l","a","s","t","u","n","g"," ">>
SpaceZero == <<" ","0">>
Comma == <<",">>

\* Transaction(...): the record, or the ValidationError of models.py 113-142
Transaction(date, title, amount, currency, notes, category, subcategory, account, meta) ==
    IF validate_categories(category, subcategory)
    THEN [raised |-> "none",
          value |-> [date |-> date, title |-> title, amount |-> amount,
                     currency |-> currency, notes |-> notes, category |-> category,
                     subcategory |-> subcategory, account |-> account, meta |-> meta]]
    ELSE [raised |-> "ValidationError", value |-> <<>>]

\* what one pass of the loop body does with a row
Skipped == [kind |-> "continue", raised |-> "none", value |-> <<>>]
Raised(exception) == [kind |-> "raise", raised |-> exception, value |-> <<>>]
Appended(built) ==
    IF built.raised = "none"
    THEN [kind |-> "append", raised |-> "none", value |-> built.value]
    ELSE Raised(built.raised)

\* mapped_categories["category"] on a CategoryMapping: the class defines no
\* __getitem__, so the subscript raises TypeError
subscript(mapping, key) == "TypeError"

\* swisscard.py lines 245-281, the loop body
swisscard_row(row, mm, mcm, rcm, order) ==
    IF row["Status"] # "Posted" \/ row["Debit/Credit"] = "Credit"
    THEN Skipped
    ELSE LET mapped_categories == map_category(row, mm, mcm, rcm, order)
         IN Raised(subscript(mapped_categories, "category"))

\* viseca.py lines 205-228, the loop body
viseca_row(row, mm, mcm, rcm, order) ==
    LET mapped_categories == map_category(row, mm, mcm, rcm, order)
    IN Raised(subscript(mapped_categories, "category"))

\* migros.py lines 117-130: the merchant text of a row
migros_merchant(text) ==
    LET merchant == split_on(text, Comma)[1] IN
    IF contains(merchant, TwintMarker)
    THEN IF contains(text, PhoneMarker)
         THEN IF Len(split_on(text, Comma)) < 2
              THEN [raised |-> "IndexError", merchant |-> <<>>]
              ELSE [raised |-> "none",
                    merchant |-> TwintMarker \o <<" ">> \o strip(split_on(text, Comma)[2])]
         ELSE LET parts == split_on(merchant, TwintBelastung) IN
              IF Len(parts) > 1
              THEN [raised |-> "none", merchant |-> strip(split_on(parts[2], SpaceZero)[1])]
              ELSE [raised |-> "none", merchant |-> merchant]
    ELSE [raised |-> "none", merchant |-> merchant]

\* migros.py lines 112-161, the loop body
migros_row(row, mm, mcm, rcm, order) ==
    IF contains(row["Buchungstext"], KarteMarker) THEN Skipped
    ELSE LET cleaned == migros_merchant(row["Buchungstext"]) IN
         IF cleaned.raised # "none" THEN Raised(cleaned.raised)
         ELSE LET title == IF row["Mitteilung"] \notin {None, <<>>}
                           THEN row["Mitteilung"] ELSE cleaned.merchant
                  mapping == map_category([c \in {merchant_column, "Betrag"} |->
                                              IF c = merchant_column THEN title
                                              ELSE row["Betrag"]],
                                          mm, mcm, rcm, order)
              IN Appended(Transaction(row["Datum"], title, row["Betrag"], "CHF",
                                      ProcessorName["MigrosProcessor"],
                                      mapping.category, mapping.subcategory,
                                      ProcessorName["MigrosProcessor"],
                                      [processor |-> ProcessorName["MigrosProcessor"],
                                       original_row |-> row]))

\* zkb.py lines 117-144, the loop body: the dict given to _map_category has
\* the key self.amount_column, an attribute no ZKBProcessor has
zkb_row(row, mm, mcm, rcm, order) ==
    IF ~has_attribute("ZKBProcessor", "amount_column") THEN Raised("AttributeError")
    ELSE LET mapping == map_category([c \in {merchant_column, amount_column} |->
                                         IF c = merchant_column THEN row["Booking text"]
                                         ELSE row["Amount"]],
                                     mm, mcm, rcm, order)
         IN Appended(Transaction(row["Date"], row["Booking text"], row["Amount"], "CHF",
                                 ProcessorName["ZKBProcessor"],
                                 mapping.category, mapping.subcategory,
                                 ProcessorName["ZKBProcessor"],
                                 [processor |-> ProcessorName["ZKBProcessor"],
                                  original_row |-> row]))

transform_row(class, row, mm, mcm, rcm, order) ==
    IF class = "SwisscardProcessor" THEN swisscard_row(row, mm, mcm, rcm, order)
    ELSE IF class = "VisecaProcessor" THEN viseca_row(row, mm, mcm, rcm, order)
    ELSE IF class = "MigrosProcessor" THEN migros_row(row, mm, mcm, rcm, order)
    ELSE zkb_row(row, mm, mcm, rcm, order)

\* transform_data from row i of the frame on: the transactions appended so
\* far are returned when the frame is exhausted; an exception in the loop
\* body leaves the call with nothing returned
RECURSIVE transform_data(_, _, _, _, _, _, _, _)
transform_data(class, frame, i, transactions, mm, mcm, rcm, order) ==
    IF i > Len(frame) THEN [raised |-> "none", transactions |-> transactions]
    ELSE LET r == transform_row(class, frame[i], mm, mcm, rcm, order) IN
         IF r.kind = "raise" THEN [raised |-> r.raised, transactions |-> <<>>]
         ELSE transform_data(class, frame, i + 1,
                             IF r.kind = "append" THEN Append(transactions, r.value)
                             ELSE transactions,
                             mm, mcm, rcm, order)

\* the rows of the frame each load_data builds
SwisscardFrameRows ==
    {[c \in {"Transaction date", "Description", "Merchant", "Amount", "Currency",
             "Status", "Debit/Credit", "Merchant Category", "Registered Category"} |->
        IF c = "Status" THEN status
        ELSE IF c = "Debit/Credit" THEN dc
        ELSE IF c = "Merchant" THEN <<"C","o","o","p">>
        ELSE IF c = "Description" THEN <<"C","o","o","p"," ","B","e","r","n">>
        ELSE IF c = "Merchant Category" THEN <<"F","o","o","d">>
        ELSE IF c = "Registered Category" THEN <<"B","a","r","s">>
        ELSE IF c = "Amount" THEN 1
        ELSE IF c = "Currency" THEN "CHF"
        ELSE "2024-01-01"] :
      status \in {"Posted", "Pending"}, dc \in {"Debit", "Credit"}}

VisecaFrameRows ==
    {[c \in {"date", "description", "amount", "currency", "Name", "PFMCategoryName"} |->
        IF c = "Name" THEN name
        ELSE IF c = "description" THEN name
        ELSE IF c = "PFMCategoryName" THEN <<"F","o","o","d">>
        ELSE IF c = "amount" THEN 1
        ELSE IF c = "currency" THEN "CHF"
        ELSE "2024-01-01"] :
      name \in {<<"C","o","o","p">>, <<"K","i","r">>}}

BuchungstextValues ==
    { <<"C","o","o","p",","," ","B","e","r","n">>,
      <<"K","a","r","t","e",":"," ","4","7","4","1","2","4",","," ","K","i","r">>,
      <<"T","W","I","N","T",","," ","J","o",","," ","+","4","1","7">>,
      <<"T","W","I","N","T"," ","+","4","1","7">>,
      <<"T","W","I","N","T"," ","B","e","l","a","s","t","u","n","g"," ","K","i","r"," ","0","1">> }

MigrosFrameRows ==
    {[c \in {"Datum", "Buchungstext", "Mitteilung", "Betrag"} |->
        IF c = "Buchungstext" THEN text
        ELSE IF c = "Mitteilung" THEN note
        ELSE IF c = "Betrag" THEN 0 - 1
        ELSE "2024-01-01"] :
      text \in BuchungstextValues, note \in {None, <<"S","v">>}}

ZKBFrameRows ==
    {[c \in {"Date", "Booking text", "Amount"} |->
        IF c = "Booking text" THEN text
        ELSE IF c = "Amount" THEN 0 - 1
        ELSE "2024-01-01"] :
      text \in {<<"C","o","o","p">>, <<"T","W","I","N","T"," ","J","o">>}}

FrameRows(class) ==
    IF class = "SwisscardProcessor" THEN SwisscardFrameRows
    ELSE IF class = "VisecaProcessor" THEN VisecaFrameRows
    ELSE IF class = "MigrosProcessor" THEN MigrosFrameRows
    ELSE ZKBFrameRows

Frames(class) == UNION {[1..n -> FrameRows(class)] : n \in 0..MaxRows}

\* processor.transform_data() with self._df = frame.  self is the instance
\* of the class as its __init__ left it, the columns and tables it has
\* assigned by then.
TransformData ==
    /\ processor.class \in ProviderClasses
    /\ \E frame \in Frames(processor.class) :
       \E r \in {transform_data(processor.class, frame, 1, <<>>, merchant_mappings,
                                merchant_category_mappings,
                                registered_category_mappings, hash_order)} :
          /\ transformed' = [done |-> TRUE, frame |-> frame,
                             transactions |-> r.transactions, raised |-> r.raised]
          /\ error' = r.raised
    /\ call' = NoCall
    /\ UNCHANGED <<merchant_mappings, merchant_category_mappings,
                   registered_category_mappings, hash_order, columns, processor,
                   peer_mappings, suggested_merchant_mapping, made, split_call, export>>

TransformNext == Construct \/ TransformData

TransformSpec == Init /\ [][TransformNext]_vars

----------------------------------------------------------------------------
(* C22 *)

\* the row a processor hands to resolve for the transaction t it builds:
\* the frame's row (Swisscard, Viseca), or a dict made of the title
\* (Migros, ZKB)
ResolvedRow(class, t) ==
    IF class \in {"MigrosProcessor", "ZKBProcessor"}
    THEN [c \in {merchant_column} |-> t.title]
    ELSE t.meta.original_row

\* the frame has a row that the loop of the class does not skip
HasIncludedRow(class, frame) ==
    \E i \in DOMAIN frame :
        transform_row(class, frame[i], merchant_mappings, merchant_category_mappings,
                      registered_category_mappings, hash_order).kind # "continue"

\* C22: for each of the four processors, transform_data completes without
\* error, and every transaction it produces carries the category and
\* subcategory that resolve returns for the row it was built from.
C22_ProcessorEmbedsResolve ==
    transformed.done =>
        /\ transformed.raised = "none"
        /\ \A i \in DOMAIN transformed.transactions :
              \E t \in {transformed.transactions[i]} :
              \E mapping \in {map_category(ResolvedRow(processor.class, t),
                                           merchant_mappings, merchant_category_mappings,
                                           registered_category_mappings, hash_order)} :
                 /\ t.category = mapping.category
                 /\ t.subcategory = mapping.subcategory


----------------------------------------------------------------------------
(* Seeds whose keys are parts of merchant names *)

\* single-entry seeds of the merchant table: a two-word key that is the
\* start of a longer name, the start of a word, the inside of a word, and a
\* whole name
LookupSeeds ==
    { << << <<"C","o","o","p"," ","K">>, Instance("TRAVEL", None) >> >>,
      << << <<"S","h","o">>, Instance("TRAVEL", None) >> >>,
      << << <<"o","o">>, Instance("HOBBIES", None) >> >>,
      << << <<"S","h","o","p">>, Instance("LEISURE", None) >> >> }

LookupSeed ==
    /\ processor.constructed
    /\ \E mapper \in LookupSeeds : set_category_mapper(mapper, merchant_column)

LookupNext == LookupSeed \/ MapCategory

LookupSpec == Init /\ [][LookupNext]_vars

----------------------------------------------------------------------------
(* C23 *)

\* the keys that may match the merchant name of the row: the whole
\* lowercased name and each of its whitespace-separated words
MatchingKeys(r) ==
    IF row_has(r, merchant_column)
    THEN {lower(r[merchant_column])} \cup Range(split(lower(r[merchant_column])))
    ELSE {}

\* the table without the keys outside S
Restricted(d, S) == [key \in DOMAIN d \cap S |-> d[key]]

\* C23: the merchant table is probed with the whole lowercased name and with
\* its words only: resolve returns what it would return if the merchant
\* table held no other key, so a key that is only a part of the name or of
\* a word never matches.
C23_ExactMatchOnly ==
    call.done =>
        call.result = map_category(call.row,
                                   Restricted(merchant_mappings, MatchingKeys(call.row)),
                                   merchant_category_mappings,
                                   registered_category_mappings, hash_order)

\* the table holds a two-word key inside the longer name of the row and the
\* start of the name's last word, and the call returned neither entry
C23_Witness ==
    /\ call.done
    /\ DefaultMerchantColumn \in DOMAIN call.row
    /\ call.row[DefaultMerchantColumn] = <<"C","o","o","p"," ","K","I","R">>
    /\ <<"c","o","o","p"," ","k">> \in DOMAIN merchant_mappings
    /\ contains(lower(call.row[DefaultMerchantColumn]), <<"c","o","o","p"," ","k">>)
    /\ <<"c","o","o","p"," ","k">> \notin MatchingKeys(call.row)
    /\ call.result # merchant_mappings[<<"c","o","o","p"," ","k">>]
    /\ call.result = merchant_mappings[<<"k","i","r">>]

\* the only keys of the table inside the name are the start and the inside
\* of its single word, and the call went on to the default
C23_WitnessPart ==
    /\ call.done
    /\ DOMAIN call.row = {DefaultMerchantColumn, amount_column}
    /\ call.row[DefaultMerchantColumn] = <<"S","h","o","p">>
    /\ {<<"s","h","o">>, <<"o","o">>} \subseteq DOMAIN merchant_mappings
    /\ <<"s","h","o","p">> \notin DOMAIN merchant_mappings
    /\ call.result = default_mapping(call.row)

----------------------------------------------------------------------------
(* C24 *)

\* a TWINT row that names a phone number
TwintPhoneRow(row) ==
    /\ contains(row["Buchungstext"], TwintMarker)
    /\ contains(row["Buchungstext"], PhoneMarker)

\* C24: the transactions MigrosProcessor.transform_data returns are built
\* from no row whose Buchungstext has the Viseca card marker and from no
\* TWINT row whose Buchungstext has "+417".
C24_MigrosFilters ==
    (transformed.done /\ processor.class = "MigrosProcessor") =>
        \A i \in DOMAIN transformed.transactions :
            \E row \in {transformed.transactions[i].meta.original_row} :
                /\ ~contains(row["Buchungstext"], KarteMarker)
                /\ ~TwintPhoneRow(row)

\* the half of C24 that the code keeps: no transaction is built from a row
\* with the card marker
C24_CardRowsSkipped ==
    (transformed.done /\ processor.class = "MigrosProcessor") =>
        \A i \in DOMAIN transformed.transactions :
            ~contains(transformed.transactions[i].meta.original_row["Buchungstext"],
                      KarteMarker)

----------------------------------------------------------------------------
(* CashewClient._split_batch (core/client.py) *)

\* longest list given to one _split_batch call
MaxTransactions == 4

\* split_batch with a fault: a last chunk shorter than max_size is left out
split_batch_full_chunks_only(transactions, max_size) ==
    [k \in 1..(Len(transactions) \div max_size) |->
        SubSeq(transactions, (k - 1) * max_size + 1, k * max_size)]

\* [transactions[i : i + max_size] for i in range(0, len(transactions), max_size)]
\* for max_size >= 1: one slice for each start 0, max_size, 2 * max_size, ...
\* below the length; a slice ends at the end of the list at the latest
split_batch(transactions, max_size) ==
    [k \in 1..((Len(transactions) + max_size - 1) \div max_size) |->
        SubSeq(transactions, (k - 1) * max_size + 1,
               IF k * max_size < Len(transactions) THEN k * max_size
               ELSE Len(transactions))]

\* the lists given: up to MaxTransactions items, each one of two
SplitInputs == UNION {[1..n -> {"t1", "t2"}] : n \in 0..MaxTransactions}

\* client._split_batch(transactions, max_size)
SplitBatch ==
    /\ \E transactions \in SplitInputs :
       \E max_size \in 1..(MaxTransactions + 1) :
          split_call' = [done |-> TRUE, transactions |-> transactions,
                         max_size |-> max_size,
                         chunks |-> split_batch(transactions, max_size)]
    /\ UNCHANGED <<merchant_mappings, merchant_category_mappings,
                   registered_category_mappings, hash_order, call, error, columns,
                   processor, peer_mappings, suggested_merchant_mapping, made,
                   transformed, export>>

SplitNext == SplitBatch

SplitSpec == Init /\ [][SplitNext]_vars

----------------------------------------------------------------------------
(* C25 *)

\* the chunks from chunk k on, one after the other
RECURSIVE Concatenated(_, _)
Concatenated(chunks, k) ==
    IF k > Len(chunks) THEN <<>> ELSE chunks[k] \o Concatenated(chunks, k + 1)

\* C25: the chunks of _split_batch, put one after the other, are the input
\* list; every chunk has between 1 and max_size items and every chunk but
\* the last has max_size; an empty list gives no chunk.
C25_SplitPartitions ==
    split_call.done =>
        /\ Concatenated(split_call.chunks, 1) = split_call.transactions
        /\ \A k \in DOMAIN split_call.chunks :
              /\ Len(split_call.chunks[k]) >= 1
              /\ Len(split_call.chunks[k]) <= split_call.max_size
              /\ k < Len(split_call.chunks) =>
                    Len(split_call.chunks[k]) = split_call.max_size
        /\ split_call.transactions = <<>> => split_call.chunks = <<>>

\* a list that does not divide evenly: two chunks, the last one shorter
C25_Witness ==
    /\ split_call.done
    /\ Len(split_call.transactions) = 3
    /\ split_call.max_size = 2
    /\ Len(split_call.chunks) = 2
    /\ Len(split_call.chunks[2]) = 1

\* an empty list has been split
C25_WitnessEmpty ==
    /\ split_call.done
    /\ split_call.transactions = <<>>
    /\ split_call.chunks = <<>>


----------------------------------------------------------------------------
(* CashewClient.export_to_api (core/client.py) *)

\* max_size of the sub-batches (line 228)
BatchSize == 25

\* longest batch whose transactions are chosen freely
MaxBatch == 2

\* an amount that is None, and an amount that is a number
NoAmount == [has |-> FALSE, v |-> 0]
Amount(a) == [has |-> TRUE, v |-> a]

\* a Transaction object as export_to_api reads it.  A date or category of
\* "None" is None; a category that is no member of Category is a str the
\* caller assigned.
ExportTransaction(date, title, amount, category, subcategory, name) ==
    [date |-> date, title |-> title, amount |-> amount, category |-> category,
     subcategory |-> subcategory, meta |-> [processor |-> name]]

\* the transactions of the short batches: well-formed ones of either
\* processor with each amount, and one with each defect
ExportTransactions ==
    {ExportTransaction("2024-01-01", <<"C","o","o","p">>, Amount(a), "SHOPPING", None, name) :
        a \in Amounts, name \in {"Viseca", "Migros Bank"}}
    \cup {ExportTransaction("None", <<"C","o","o","p">>, Amount(1), "SHOPPING", None, "Viseca"),
          ExportTransaction("2024-01-01", <<"C","o","o","p">>, NoAmount, "SHOPPING", None, "Viseca"),
          ExportTransaction("2024-01-01", <<>>, Amount(1), "SHOPPING", None, "Viseca"),
          ExportTransaction("2024-01-01", <<"C","o","o","p">>, Amount(1), "Shopping", Str("Gifts"),
                            "Migros Bank")}

\* a batch of n transactions with amounts sign * 1, ..., sign * n, the last
\* one without a title if `bad`
LongBatch(n, sign, bad) ==
    [i \in 1..n |->
        ExportTransaction("2024-01-01", IF bad /\ i = n THEN <<>> ELSE <<"C","o","o","p">>,
                          Amount(sign * i), "SHOPPING", None,
                          IF sign > 0 THEN "Viseca" ELSE "Migros Bank")]

\* the lists of transactions given to export_to_api
ExportInputs ==
    UNION {[1..n -> ExportTransactions] : n \in 0..MaxBatch}
    \cup {LongBatch(n, sign, bad) :
            n \in {BatchSize + 1, 2 * BatchSize + 1}, sign \in {0 - 1, 1}, bad \in BOOLEAN}

\* TransactionBatch.source, the class name of the processor (base.py line 380)
Sources == {"VisecaProcessor", "MigrosProcessor"}

\* missing_field with a fault: an empty title is let through
missing_field_title_unchecked(t) ==
    IF t.date = "None" THEN "date"
    ELSE IF ~t.amount.has THEN "amount"
    ELSE "none"

\* lines 172-182: the first required field the transaction lacks
missing_field(t) ==
    IF t.date = "None" THEN "date"
    ELSE IF ~t.amount.has THEN "amount"
    ELSE IF t.title = <<>> THEN "title"
    ELSE "none"

\* lines 208-212
treated_as_viseca(t, source) ==
    source = "VisecaProcessor" \/ t.meta.processor = "Viseca"

\* viseca_amount with a fault: the amount is negated whatever its sign
viseca_amount_negated(amount) == 0 - amount

\* lines 217-218
viseca_amount(amount) == IF amount > 0 THEN 0 - amount ELSE amount

\* lines 185-221 on a transaction that has its required fields: a category
\* or subcategory without .value is set to None, the amount of a Viseca
\* transaction is made negative
checked(t, source) ==
    [t EXCEPT !.category = IF t.category \in Category THEN t.category ELSE "None",
              !.subcategory = IF t.subcategory = None \/ is_enum_instance(t.subcategory)
                              THEN t.subcategory ELSE None,
              !.amount = IF treated_as_viseca(t, source)
                         THEN Amount(viseca_amount(t.amount.v)) ELSE t.amount]

\* the validation loop (lines 169-225) from transaction i on: the objects of
\* the list are changed in place, and the first one that lacks a field ends
\* the call with ValueError naming its index (counted from 0)
RECURSIVE validate(_, _, _)
validate(transactions, source, i) ==
    IF i > Len(transactions)
    THEN [raised |-> "none", index |-> 0, transactions |-> transactions]
    ELSE IF missing_field(transactions[i]) # "none"
         THEN [raised |-> "ValueError", index |-> i - 1, transactions |-> transactions]
         ELSE validate([transactions EXCEPT ![i] = checked(transactions[i], source)],
                       source, i + 1)

\* TransactionBatch.to_cashew_format (base.py lines 27-41)
to_cashew_format(transactions) ==
    [i \in DOMAIN transactions |->
        [date |-> transactions[i].date,
         title |-> transactions[i].title,
         amount |-> transactions[i].amount.v,
         category |-> IF transactions[i].category \in Category
                      THEN CategoryValue[transactions[i].category] ELSE "None",
         subcategory |-> IF transactions[i].subcategory \in DOMAIN SubcategoryValue
                         THEN SubcategoryValue[transactions[i].subcategory]
                         ELSE "None"]]

\* get_add_transaction_url(batch=...): the endpoint and the JSON parameter
get_add_transaction_url(transactions) ==
    [endpoint |-> "/addTransaction", JSON |-> to_cashew_format(transactions)]

\* batches[0] at line 233
first_batch(batches) ==
    IF batches = <<>> THEN [raised |-> "IndexError", value |-> <<>>]
    ELSE [raised |-> "none", value |-> batches[1]]

\* export_to_api(batch, dry_run) up to its first browser call: the
\* validation, the split, and for a dry run the URL of the first sub-batch
export_to_api(transactions, source, dry_run, again) ==
    LET v == validate(transactions, source, 1)
        batches == split_batch(v.transactions, BatchSize)
        started == [pc |-> "opening", source |-> source, dry_run |-> dry_run,
                    again |-> again, given |-> transactions,
                    transactions |-> v.transactions, batches |-> batches,
                    opened |-> <<>>, returned |-> <<>>, raised |-> "none",
                    index |-> 0]
    IN IF v.raised # "none"
       THEN [started EXCEPT !.pc = "raised", !.raised = v.raised, !.index = v.index,
                            !.batches = <<>>]
       ELSE IF dry_run
       THEN IF first_batch(batches).raised # "none"
            THEN [started EXCEPT !.pc = "raised", !.raised = first_batch(batches).raised]
            ELSE [started EXCEPT !.pc = "returned",
                     !.returned = <<get_add_transaction_url(first_batch(batches).value)>>]
       ELSE IF batches = <<>>
       THEN [started EXCEPT !.pc = "returned"]
       ELSE started

\* client.export_to_api(batch, dry_run=dry_run) is called: on a batch the
\* caller has made, or once more on the batch object of the call before
ExportToApi ==
    /\ export.pc # "opening"
    /\ \E dry_run \in BOOLEAN :
          \/ /\ export.pc = "idle"
             /\ \E transactions \in ExportInputs :
                \E source \in Sources :
                   export' = export_to_api(transactions, source, dry_run, FALSE)
          \/ /\ export.pc # "idle"
             /\ export' = export_to_api(export.transactions, export.source, dry_run, TRUE)
    /\ UNCHANGED <<merchant_mappings, merchant_category_mappings,
                   registered_category_mappings, hash_order, call, error, columns,
                   processor, peer_mappings, suggested_merchant_mapping, made,
                   transformed, split_call>>

\* OpenBatch with a fault: a failure to open a sub-batch is passed over and
\* the loop goes on
OpenBatch_passing_over ==
    /\ export.pc = "opening"
    /\ \E ok \in BOOLEAN :
       \E i \in {Len(export.opened) + 1, Len(export.opened) + 2} :
          /\ i <= Len(export.batches)
          /\ export' =
                [export EXCEPT
                    !.opened = Append(@, get_add_transaction_url(export.batches[i])),
                    !.pc = IF i = Len(export.batches) THEN "returned" ELSE "opening"]
    /\ UNCHANGED <<merchant_mappings, merchant_category_mappings,
                   registered_category_mappings, hash_order, call, error, columns,
                   processor, peer_mappings, suggested_merchant_mapping, made,
                   transformed, split_call>>

\* one pass of the loop at lines 239-254: _open_url either opens the URL of
\* the next sub-batch or raises (no command to open it, unsupported system),
\* which ends the call with RuntimeError; after the last sub-batch the call
\* returns None
OpenBatch ==
    /\ export.pc = "opening"
    /\ \E ok \in BOOLEAN :
       \E i \in {Len(export.opened) + 1} :
          export' =
             IF ok
             THEN [export EXCEPT
                      !.opened = Append(@, get_add_transaction_url(export.batches[i])),
                      !.pc = IF i = Len(export.batches) THEN "returned" ELSE "opening"]
             ELSE [export EXCEPT !.pc = "raised", !.raised = "RuntimeError",
                                 !.index = i - 1]
    /\ UNCHANGED <<merchant_mappings, merchant_category_mappings,
                   registered_category_mappings, hash_order, call, error, columns,
                   processor, peer_mappings, suggested_merchant_mapping, made,
                   transformed, split_call>>

ExportNext == ExportToApi \/ OpenBatch

ExportSpec == Init /\ [][ExportNext]_vars

----------------------------------------------------------------------------
(* C26 *)

\* the call has ended, by returning or raising
Ended == export.pc \in {"returned", "raised"}

\* the validation loop of the call found every transaction complete
Validated == export.pc # "idle" /\ export.raised # "ValueError"

\* the first `n` items of a list, or all of it if it has fewer
FirstItems(list, n) == SubSeq(list, 1, IF Len(list) < n THEN Len(list) ELSE n)

\* C26: a dry run on a batch that passes validation, a batch of no
\* transactions included, returns the URL of the first at most 25
\* transactions and opens nothing.
C26_DryRunReturnsFirstUrl ==
    (Ended /\ export.dry_run /\ Validated) =>
        /\ export.pc = "returned"
        /\ export.returned =
              <<get_add_transaction_url(FirstItems(export.transactions, BatchSize))>>
        /\ export.opened = <<>>

\* what the code keeps of C26: a dry run on a batch of at least one
\* transaction that passes validation
C26_DryRunOfNonEmptyBatch ==
    (Ended /\ export.dry_run /\ Validated /\ export.transactions # <<>>) =>
        /\ export.pc = "returned"
        /\ export.returned =
              <<get_add_transaction_url(FirstItems(export.transactions, BatchSize))>>
        /\ export.opened = <<>>

----------------------------------------------------------------------------
(* C27 *)

\* the transaction has a date, an amount and a non-empty title
Complete(t) == t.date # "None" /\ t.amount.has /\ t.title # <<>>

\* the positions of the batch as it was given whose transaction is not complete
Incomplete == {i \in DOMAIN export.given : ~Complete(export.given[i])}

\* C27: a URL is opened only if every transaction of the batch is complete;
\* if one is not, the call has raised ValueError naming the index of the
\* first such transaction, and has opened nothing.
C27_ValidationPrecedesExport ==
    export.pc # "idle" =>
        /\ export.opened # <<>> => Incomplete = {}
        /\ Incomplete # {} =>
              /\ export.pc = "raised"
              /\ export.raised = "ValueError"
              /\ export.index + 1 \in Incomplete
              /\ \A i \in Incomplete : export.index + 1 <= i
              /\ export.opened = <<>>

\* a normal export has raised on the last transaction of a batch of more
\* than one sub-batch, after the loop had gone through all the others, and
\* nothing was opened
C27_Witness ==
    /\ export.pc = "raised"
    /\ ~export.dry_run
    /\ export.raised = "ValueError"
    /\ Len(export.given) > BatchSize
    /\ export.index = Len(export.given) - 1
    /\ export.transactions # export.given
    /\ export.opened = <<>>

\* a normal export of a complete batch has opened its URL
C27_WitnessOpened ==
    /\ export.pc = "returned"
    /\ ~export.dry_run
    /\ export.opened # <<>>
    /\ Incomplete = {}

----------------------------------------------------------------------------
(* C28 *)

\* the URLs of the first n sub-batches, in index order
UrlsOf(batches, n) == [k \in 1..n |-> get_add_transaction_url(batches[k])]

\* the JSON parameters of the URLs from URL k on, one after the other
RECURSIVE Exported(_, _)
Exported(urls, k) ==
    IF k > Len(urls) THEN <<>> ELSE urls[k].JSON \o Exported(urls, k + 1)

\* what has been opened is the URLs of the first sub-batches, each once and
\* in index order; a call that raised RuntimeError at sub-batch k has opened
\* the k - 1 before it; a call that returned has opened all, so that every
\* transaction is in exactly one URL
OpenedInOrder ==
    (export.pc # "idle" /\ ~export.dry_run) =>
        /\ Len(export.opened) <= Len(export.batches)
        /\ export.opened = UrlsOf(export.batches, Len(export.opened))
        /\ \A k \in DOMAIN export.batches : Len(export.batches[k]) <= BatchSize
        /\ export.raised = "RuntimeError" =>
              /\ export.pc = "raised"
              /\ Len(export.opened) = export.index
        /\ export.pc = "returned" =>
              /\ Len(export.opened) = Len(export.batches)
              /\ Exported(export.opened, 1) = to_cashew_format(export.transactions)

\* a step of a call in progress opens at most the one sub-batch that comes
\* next, and a call that has raised opens nothing more
OpensNextOnly ==
    (export.pc # "idle" /\ export'.given = export.given /\ ~export'.again) =>
        /\ \/ export'.opened = export.opened
           \/ export'.opened =
                 Append(export.opened,
                        get_add_transaction_url(export.batches[Len(export.opened) + 1]))
        /\ export.pc = "raised" => export'.opened = export.opened

\* C28: a normal export opens the sub-batches of at most 25 transactions in
\* index order, each at most once and each only after the one before it was
\* opened; a failure to open sub-batch k ends the call with RuntimeError
\* and nothing after k is opened; without a failure every transaction is in
\* exactly one opened URL when the call returns.
C28_OrderedFailStop == [](OpenedInOrder) /\ [][OpensNextOnly]_vars

\* the second of three sub-batches could not be opened: the call has raised
\* RuntimeError with one URL opened
C28_Witness ==
    /\ export.pc = "raised"
    /\ export.raised = "RuntimeError"
    /\ Len(export.batches) = 3
    /\ export.index = 1
    /\ Len(export.opened) = 1
    /\ Len(export.opened[1].JSON) = BatchSize

\* all three sub-batches of a batch of 51 have been opened
C28_WitnessAll ==
    /\ export.pc = "returned"
    /\ ~export.dry_run
    /\ Len(export.opened) = 3
    /\ Len(export.opened[3].JSON) = 1

----------------------------------------------------------------------------
(* C29 *)

\* the amounts of a list of transactions
AmountsOf(transactions) == [i \in DOMAIN transactions |-> transactions[i].amount]

\* after validation every transaction treated as Viseca has an amount of at
\* most 0, the negation of the amount it was given with if that was
\* positive; the amount of every other transaction is as it was given
AmountsNormalized ==
    Validated =>
        /\ Len(export.transactions) = Len(export.given)
        /\ \A i \in DOMAIN export.given :
              \E was \in {export.given[i].amount.v} :
              \E is \in {export.transactions[i].amount.v} :
                 IF treated_as_viseca(export.given[i], export.source)
                 THEN /\ is <= 0
                      /\ was > 0 => is = 0 - was
                      /\ was <= 0 => is = was
                 ELSE is = was

\* an export of the batch object that a validated export has already gone
\* through leaves every amount as that export left it
SecondExportChangesNothing ==
    (Validated /\ Ended /\ export'.again) =>
        /\ export'.raised # "ValueError"
        /\ AmountsOf(export'.transactions) = AmountsOf(export.transactions)

\* C29: once export_to_api has validated a batch, in a dry run or a normal
\* run, the caller's transactions treated as Viseca have amounts <= 0, a
\* positive one replaced by its negation, the others have the amounts they
\* were given with, and a second export changes no amount.
C29_VisecaSignNormalized == [](AmountsNormalized) /\ [][SecondExportChangesNothing]_vars

\* a dry run on a batch from another processor has negated the positive
\* amount of a transaction whose meta names Viseca, and left the positive
\* amount of a transaction of the other processor
C29_Witness ==
    /\ Validated
    /\ export.dry_run
    /\ export.source = "MigrosProcessor"
    /\ Len(export.given) = 2
    /\ export.given[1].meta.processor = "Viseca"
    /\ export.given[1].amount.v = 1
    /\ export.transactions[1].amount.v = 0 - 1
    /\ export.given[2].meta.processor = "Migros Bank"
    /\ export.transactions[2].amount.v = 1

\* a batch with a positive amount has been exported twice
C29_WitnessTwice ==
    /\ Validated
    /\ export.again
    /\ export.source = "VisecaProcessor"
    /\ \E i \in DOMAIN export.given : export.given[i].amount.v < 0

----------------------------------------------------------------------------
(* C30 *)

\* the position of the first entry of the mapper that cannot be built, 0 if
\* every entry can
FirstFailing(mapper) == IF Applied(mapper) = Len(mapper) THEN 0 ELSE Applied(mapper) + 1

\* the seed calls whose mapper has an entry that cannot be built
FailingSeeds == {sd \in ProviderSeeds : FirstFailing(sd[2]) # 0}

\* the step is what a seed call with the mapper does to table `target` when
\* it stops at the first entry that cannot be built: the entries before it
\* are in the table, no entry from it on is applied, the other two tables
\* are as they were
StoppedAtFirstFailing(mapper, target) ==
    /\ Layered(tables[target], SubSeq(mapper, 1, FirstFailing(mapper) - 1), tables'[target])
    /\ \A i \in 1..(FirstFailing(mapper) - 1) : lower(mapper[i][1]) \in DOMAIN tables'[target]
    /\ \A i \in FirstFailing(mapper)..Len(mapper) :
          \/ lower(mapper[i][1]) \notin DOMAIN tables'[target]
          \/ lower(mapper[i][1]) \in DOMAIN tables[target]
          \/ \E j \in 1..(FirstFailing(mapper) - 1) : lower(mapper[j][1]) = lower(mapper[i][1])
    /\ \A other \in 1..3 \ {target} : tables'[other] = tables[other]

\* C30: a seed call on a processor that raises on an entry has written the
\* entries before that entry, which stay in the table, and none after it.
C30_SeedNotAtomic ==
    [][(processor.constructed /\ processor' = processor /\ columns' = columns
            /\ peer_mappings' = peer_mappings /\ error' = "ValidationError")
          => \E sd \in FailingSeeds :
                StoppedAtFirstFailing(sd[2], TableIndex(sd[1]))]_vars

\* a seed call of three entries has raised on the second: the first is in
\* the merchant table, which had no such key when the processor was
\* constructed, and the second and the third are not
C30_Witness ==
    /\ processor.constructed
    /\ error = "ValidationError"
    /\ <<"c","o","o","p">> \in DOMAIN merchant_mappings
    /\ <<"c","o","o","p">> \notin DOMAIN ConstructedMerchantMappings
    /\ <<"p","u","b">> \notin DOMAIN merchant_mappings
    /\ <<"k","i","n","o">> \notin DOMAIN merchant_mappings

====
